---- MODULE Spec2Model ----
(***************************************************************************)
(* Arcane Forum Archiver (src/ArcaneForumArch.py): the concurrent archival  *)
(* engine.  Seven components are modelled, each with its own specifications  *)
(* over the shared variable list:                                           *)
(*   SpecMirror     - MirrorCrawler (run, _worker, _normalize, _url_to_path)*)
(*   SpecMirrorLive - the same with fair scheduling of its threads          *)
(*   SpecMirrorPaths- the same on a site with /a and /a/index.html          *)
(*   SpecMedia      - MediaDownloader.download_from_html on a shared store  *)
(*   SpecDiscover   - VBulletinBackup.discover_all_threads                  *)
(*   SpecBackup     - VBulletinBackup.run_backup / download_thread          *)
(*   SpecThread     - run_backup on one unit of any shape                   *)
(*   SpecResume     - run_backup on an output directory that holds pages    *)
(*   SpecDisk       - run_backup on a directory that refuses some writes    *)
(*   SpecExtract    - convert_html_folder, then _parse_single_html          *)
(*   SpecFetch      - one streaming fetch of get_page or _fetch_bytes       *)
(*   SpecBbcode     - one conversion by _html_to_bbcode and _clean_bbcode   *)
(* A specification leaves the variables of the other components at their    *)
(* idle values.                                                             *)
(***************************************************************************)
EXTENDS Integers, Sequences, FiniteSets, TLC

VARIABLES
    \* ---- MirrorCrawler ----
    site,             \* the web site served to the mirror run (environment)
    queue,            \* self.queue.queue: FIFO of raw URLs and None sentinels
    unfinished_tasks, \* self.queue.unfinished_tasks
    visited,          \* self.visited
    stop,             \* self._stop (threading.Event)
    downloaded,       \* self._downloaded
    wpc,              \* position of each worker thread in _worker
    wurl,             \* the URL a worker holds (local variable url)
    wtodo,            \* link tags of the parsed page a worker still has to walk
    rpc,              \* position of run()
    ri,               \* loop index of run(): sentinels put, then threads joined
    rret,             \* value returned by run()
    mfiles,           \* mirror tree on disk: local path -> URL whose body it holds, and the tags of the saved document
    fetchCount,       \* history: session.get calls per URL
    fetchStatus,      \* history: outcome of the fetch of a URL
    \* ---- MediaDownloader (one store instance shared by the unit workers) ----
    index,            \* self._index: source URL -> stored filename
    indexFile,        \* _media_index.json as last written by _save_index
    mediaDir,         \* files of media_dir: filename -> the data it holds
    stop_event,       \* the stop event shared by VBulletinBackup and its store
    hpc,              \* position of each harvesting thread in download_from_html
    hurls,            \* media_urls the thread still has to iterate
    hurl,             \* the thread's local variable url
    hfpath,           \* the thread's local variable fpath (a filename)
    hcount,           \* the thread's local variable downloaded
    harvests,         \* download_from_html calls started so far
    mfetches,         \* history: fetches of a URL that returned data
    harvested,        \* history: harvests whose media_urls held a URL
    overwritten,      \* history: filenames opened for writing while they existed
    mediaFault,       \* history: a fetch or a file write failed
    hskipped,         \* history: the URLs a thread skipped in this pass after such a failure
    \* ---- VBulletinBackup.discover_all_threads ----
    dpc,              \* position of discover_all_threads
    dpages,           \* pages: the listing pages to scan (page numbers)
    dtask,            \* state of each process_page future
    dres,             \* result of each process_page future
    dcollected,       \* futures as_completed has already yielded
    all_threads,      \* all_threads
    dunique,          \* the list discover_all_threads returns
    dfailed,          \* history: the futures whose page fetch failed or gave an empty body
    \* ---- VBulletinBackup.run_backup / download_thread ----
    src,              \* the forum served: per unit, its pages, pager and outages
    listing,          \* the units the listing pages link, before deduplication
    metadataFile,     \* backup_metadata.json
    metadata,         \* self.metadata
    files,            \* page files of output_dir: <<unit id, page number>> -> body
    run,              \* number of the run_backup call (one instance per call)
    bpc,              \* position of run_backup
    threads,          \* threads (the discovered units)
    todo,             \* threads_to_download
    collected,        \* futures as_completed has already yielded
    completed,        \* completed
    successful,       \* successful
    bret,             \* value returned by run_backup
    progress,         \* the (completed, total) pairs given to progress_callback
    upc,              \* position of each unit's download_single future
    uattempt,         \* 1: first download_thread call, 2: the retry
    uresult,          \* result of the future
    unpages,          \* len(thread_pages)
    upage,            \* page_num
    udownloaded,      \* downloaded_pages
    uprev,            \* previous_size (-1: None)
    ufetch1,          \* history: fetches of the unit's primary URL in this run
    upfetched,        \* history: page numbers fetched by the page loop in this run
    uwritten,         \* history: page numbers written in this run
    uinterrupted,     \* history: the page loop was left because of the stop event
    pendingAtStop,    \* history: units not yet started when the stop event was set
    loadedIds,        \* history: unit ids in the metadata loaded at startup
    snap,             \* history: disk state and stop event at the end of the run before
    utrace,           \* history: calls, results and backoff waits of download_single
    bdump,            \* the metadata as it was when the dump in progress began (<<>>: no dump)
    download_media,   \* self.download_media: the pages downloaded are handed to the media store
    uexisting,        \* history: page numbers whose file the page loop found on disk in this run
    uharvest,         \* history: download_from_html calls, as <<page number, "stored" or "fetched">>
    unwritable,       \* the kinds of file ("page", "metadata") the output directory refuses to open for writing
    \* ---- convert_html_folder ----
    folder,           \* the saved pages of input_dir, in the order of their file names
    embed_base64,     \* embed_base64; media_dl is given exactly when it is set
    cpc,              \* position of convert_html_folder
    ci,               \* files the loop has gone through
    conv_threads,     \* all_threads of convert_html_folder: (title, posts)
    output_file,      \* the archive document written (<<>>: none)
    cret,             \* value returned by convert_html_folder
    \* ---- _parse_single_html ----
    xpc,              \* position of _parse_single_html
    xdoc,             \* raw_html: the document read
    soup,             \* soup
    arcane_threads,   \* arcane_threads, or message_blocks for a saved page
    xt,               \* t_idx, or block_idx for a saved page (from 1)
    post_divs,        \* post_divs
    xp,               \* p_idx (from 1)
    thread_title,     \* thread_title: the texts it is joined from
    posts_data,       \* posts_data
    parsed_threads,   \* all_threads of _parse_single_html
    csv_rows,         \* csv_rows
    total_posts,      \* total_posts
    recovered,        \* files written to recovered_media
    xret,             \* <<the result returned>> (<<>>: not returned yet)
    xfailed,          \* history: the handler of the parse errors was entered
    \* ---- one streaming fetch: get_page or MediaDownloader._fetch_bytes ----
    fkind,            \* "page": get_page, "media": _fetch_bytes
    fbody,            \* chunks iter_content yields for the response (environment)
    fpc,              \* position of the fetch
    fgot,             \* chunks appended to content / chunks
    fret,             \* <<the value returned>> (<<>>: not returned yet)
    fstopAt,          \* history: <<fgot when the stop event was set>> (<<>>: not set)
    \* ---- one markup conversion: _clean_bbcode(_html_to_bbcode(message_div)) ----
    bb_element,       \* the element converted (environment)
    bbpc,             \* position of the conversion
    bb_raw,           \* <<the value of _html_to_bbcode>> (<<>>: not returned yet)
    bb_body           \* <<the value of _clean_bbcode>> (<<>>: not returned yet)

mirrorVars == <<site, queue, unfinished_tasks, visited, stop, downloaded, wpc,
                wurl, wtodo, rpc, ri, rret, mfiles, fetchCount, fetchStatus>>

mediaVars == <<index, indexFile, mediaDir, stop_event, hpc, hurls, hurl, hfpath,
               hcount, harvests, mfetches, harvested, overwritten, mediaFault,
                   hskipped>>

discVars == <<dpc, dpages, dtask, dres, dcollected, all_threads, dunique, dfailed>>

backupVars == <<src, listing, metadataFile, metadata, files, run, bpc, threads,
                todo, collected, completed, successful, bret, progress, upc,
                uattempt, uresult, unpages, upage, udownloaded, uprev, ufetch1,
                upfetched, uwritten, uinterrupted, pendingAtStop, loadedIds, snap,
                utrace,
                bdump,
                download_media,
                uexisting,
                uharvest,
                unwritable>>

convVars == <<folder, embed_base64, cpc, ci, conv_threads, output_file, cret>>

parseVars == <<xpc, xdoc, soup, arcane_threads, xt, post_divs, xp, thread_title,
               posts_data, parsed_threads, csv_rows, total_posts, recovered, xret,
               xfailed>>

extractVars == <<convVars, parseVars>>

fetchVars == <<fkind, fbody, fpc, fgot, fret, fstopAt>>

bbVars == <<bb_element, bbpc, bb_raw, bb_body>>

vars == <<mirrorVars, mediaVars, discVars, backupVars, extractVars, fetchVars, bbVars>>

nonMirrorVars == <<mediaVars, discVars, backupVars, extractVars, fetchVars, bbVars>>

nonMediaVars == <<mirrorVars, discVars, backupVars, extractVars, fetchVars, bbVars>>

\* the stop event is the one VBulletinBackup hands to its store
mediaOnlyVars == <<index, indexFile, mediaDir, hpc, hurls, hurl, hfpath, hcount,
                   harvests, mfetches, harvested, overwritten, mediaFault,
                   hskipped>>

nonDiscVars == <<mirrorVars, mediaOnlyVars, backupVars, extractVars, fetchVars, bbVars>>

nonBackupVars == <<mirrorVars, mediaOnlyVars, discVars, extractVars, fetchVars, bbVars>>

nonExtractVars == <<mirrorVars, mediaOnlyVars, discVars, backupVars, fetchVars, bbVars>>

nonBbVars == <<mirrorVars, mediaVars, discVars, backupVars, extractVars, fetchVars>>

nonFetchVars == <<mirrorVars, mediaOnlyVars, discVars, backupVars, extractVars, bbVars>>

(***************************************************************************)
(* Bounds of the model.                                                     *)
(***************************************************************************)
NumMirrorWorkers == 2

MaxHarvests == 2

\* max_workers handed to VBulletinBackup
MaxWorkers == 2

\* the highest page number a pager advertises
MaxListingPage == 2

\* units of the forum, run_backup calls in a row, pages of a unit
NumUnits == 2

MaxRuns == 2

MaxPages == 3

\* the highest number of posts of a saved page
MaxPosts == 2

\* the highest number of chunks of a response body
MaxChunks == 3

\* children of the element converted
MaxChildren == 2

None == [kind |-> "None"]

Range(s) == {s[i] : i \in DOMAIN s}

(***************************************************************************)
(* URLs.  A URL is host + path segments + number of trailing slashes +      *)
(* fragment flag; a path segment is a stem and its dot-separated suffixes.  *)
(* Links are taken after urljoin(url, link), i.e. as absolute URLs.         *)
(***************************************************************************)
Seg(stem, exts) == [stem |-> stem, exts |-> exts]

Url(host, path, slashes, frag) ==
    [kind |-> "url", host |-> host, path |-> path, slashes |-> slashes, frag |-> frag]

\* urldefrag(url)[0]
Urldefrag(u) == [u EXCEPT !.frag = FALSE]

\* url.rstrip("/"): strips every trailing slash of the string
Rstrip(u) == IF u.frag THEN u ELSE [u EXCEPT !.slashes = 0]

\* MirrorCrawler._normalize
Normalize(u) == Rstrip(Urldefrag(u))

\* MirrorCrawler._url_to_path: the local file of a URL, as <<netloc, segments>>
IndexHtml == Seg("index", <<"html">>)

HasDot(seg) == Len(seg.exts) > 0

EndsWithPhp(seg) == HasDot(seg) /\ seg.exts[Len(seg.exts)] = "php"

UrlToPath(u) ==
    LET n == Len(u.path) IN
    IF n = 0 \/ u.slashes > 0
      THEN <<u.host, Append(u.path, IndexHtml)>>
    ELSE IF ~HasDot(u.path[n])
      THEN <<u.host, Append(u.path, IndexHtml)>>
    ELSE IF EndsWithPhp(u.path[n])
      THEN <<u.host, [u.path EXCEPT ![n] = Seg(@.stem, Append(@.exts, "html"))]>>
    ELSE <<u.host, u.path>>

(***************************************************************************)
(* The served site: the environment of a mirror run.  A page is html (its   *)
(* link tags are walked in document order) or an asset.  A tag is a link    *)
(* (absolute target), a skipped href (mailto:, #..., data:) or a malformed  *)
(* href on which urljoin raises ValueError.                                 *)
(***************************************************************************)
BaseDomain == "site"

PRoot == <<>>
PA == <<Seg("a", <<>>)>>
PB == <<Seg("b", <<"php">>)>>
PC == <<Seg("c", <<"png">>)>>
PD == <<Seg("d", <<>>)>>
PE == <<Seg("e", <<>>)>>

Here(p) == Url(BaseDomain, p, 0, FALSE)
Link(u) == [kind |-> "link", target |-> u]
SkipTag == [kind |-> "skip"]
BadTag == [kind |-> "malformed"]

Html(tags) == [html |-> TRUE, tags |-> tags]
Asset == [html |-> FALSE, tags |-> <<>>]

\* a cyclic site: trailing slashes, fragments, an external link, an asset
\* whose local path cannot be written, a link to a page the server does not
\* have
SiteCyclic ==
    [seed |-> Url(BaseDomain, PRoot, 1, FALSE),
     pages |-> (Here(PRoot) :> Html(<<Link(Url(BaseDomain, PA, 1, FALSE)),
                                      SkipTag,
                                      Link(Url("ext", PA, 0, FALSE)),
                                      Link(Url(BaseDomain, PC, 0, FALSE))>>))
            @@ (Here(PA) :> Html(<<Link(Url(BaseDomain, PRoot, 2, FALSE)),
                                   Link(Url(BaseDomain, PB, 0, TRUE)),
                                   Link(Url(BaseDomain, PE, 1, FALSE))>>))
            @@ (Here(PB) :> Html(<<Link(Url(BaseDomain, PA, 0, FALSE)),
                                   Link(Url(BaseDomain, PE, 0, FALSE))>>))
            @@ (Here(PC) :> Asset),
     unwritable |-> {Here(PC)}]

\* a site with a malformed href between two links of page a
SiteMalformed ==
    [seed |-> Url(BaseDomain, PRoot, 0, FALSE),
     pages |-> (Here(PRoot) :> Html(<<Link(Url(BaseDomain, PA, 0, FALSE))>>))
            @@ (Here(PA) :> Html(<<Link(Url(BaseDomain, PB, 0, FALSE)),
                                   BadTag,
                                   Link(Url(BaseDomain, PD, 1, FALSE))>>))
            @@ (Here(PB) :> Html(<<Link(Url(BaseDomain, PA, 1, TRUE))>>))
            @@ (Here(PD) :> Html(<<>>)),
     unwritable |-> {}]

Sites == {SiteCyclic, SiteMalformed}

LinkTargets(s) ==
    {t.target : t \in {x \in UNION {Range(s.pages[p].tags) : p \in DOMAIN s.pages} :
                          x.kind = "link"}}

\* every URL a run on site s can meet, raw and normalized
KnownUrls(s) ==
    LET raw == LinkTargets(s) \cup {s.seed} \cup DOMAIN s.pages
    IN  raw \cup {Normalize(u) : u \in raw}

\* outcomes of session.get(url, timeout=12): a response with a status code, or
\* an exception (connection error, timeout)
FetchOutcomes(s, u) ==
    IF u \in DOMAIN s.pages THEN {"200", "http_error", "exception"}
                            ELSE {"http_error", "exception"}

(***************************************************************************)
(* queue.Queue: put appends and counts the item as unfinished; task_done    *)
(* raises ValueError when the count is already zero, else decrements it.    *)
(***************************************************************************)
QueuePut(q, item) == Append(q, item)

TaskDoneRaises(n) == n = 0

TaskDoneCount(n) == IF n = 0 THEN n ELSE n - 1

MWorkers == 1..NumMirrorWorkers

\* the worker's next position after a task_done() call at the end of an iteration
AfterTaskDone(n, next) == IF TaskDoneRaises(n) THEN "crashed" ELSE next

\* visited check under visited_lock (lines 1405-1409)
AlreadyVisited(v, u) == u \in v

MarkVisitedForgets(v, u) == v

MarkVisited(v, u) == v \cup {u}

SameDomainAny(u) == TRUE

\* line 1437: links leaving the base domain are not followed
SameDomain(u) == u.host = BaseDomain

\* MirrorCrawler._save: makedirs and the write succeed, or (for a URL whose
\* local path cannot be written) raise an error that _save logs and swallows
SaveOutcomes(s, u) == IF u \in s.unwritable THEN {FALSE} ELSE {TRUE}

\* MirrorCrawler._save
Save(fs, path, content) == (path :> content) @@ fs

\* a site that serves the page /a and the page /a/index.html, both linked from
\* the seed page
PAIndex == <<Seg("a", <<>>), IndexHtml>>

SiteIndexed ==
    [seed |-> Url(BaseDomain, PRoot, 0, FALSE),
     pages |-> (Here(PRoot) :> Html(<<Link(Url(BaseDomain, PA, 1, FALSE)),
                                      Link(Url(BaseDomain, PAIndex, 0, FALSE))>>))
            @@ (Here(PA) :> Html(<<Link(Url(BaseDomain, PRoot, 0, FALSE))>>))
            @@ (Here(PAIndex) :> Html(<<>>)),
     unwritable |-> {}]

\* the state of a new MirrorCrawler, whatever the site
MirrorFresh ==
    /\ queue = <<>>
    /\ unfinished_tasks = 0
    /\ visited = {}
    /\ stop = FALSE
    /\ downloaded = 0
    /\ wpc = [w \in MWorkers |-> "unstarted"]
    /\ wurl = [w \in MWorkers |-> None]
    /\ wtodo = [w \in MWorkers |-> <<>>]
    /\ rpc = "start"
    /\ ri = 0
    /\ rret = -1
    /\ mfiles = <<>>
    /\ fetchCount = [u \in KnownUrls(site) |-> 0]
    /\ fetchStatus = [u \in KnownUrls(site) |-> "none"]

MirrorInit == site \in Sites /\ MirrorFresh

\* the shell sets the cancellation flag (external collaborator)
MirrorCancel ==
    /\ ~stop
    /\ rpc # "done"
    /\ stop' = TRUE
    /\ UNCHANGED <<site, queue, unfinished_tasks, visited, downloaded, wpc, wurl,
                   wtodo, rpc, ri, rret, mfiles, fetchCount, fetchStatus>>
    /\ UNCHANGED nonMirrorVars

(*************************** MirrorCrawler._worker *************************)

\* line 1390: the test of the while loop
LoopEndsNever(flag) == FALSE
LoopEnds(flag) == flag

\* line 1390: while not self._stop.is_set()
WLoop(w) ==
    /\ wpc[w] = "loop"
    /\ wpc' = [wpc EXCEPT ![w] = IF LoopEnds(stop) THEN "exit" ELSE "get"]
    /\ UNCHANGED <<site, queue, unfinished_tasks, visited, stop, downloaded, wurl,
                   wtodo, rpc, ri, rret, mfiles, fetchCount, fetchStatus>>
    /\ UNCHANGED nonMirrorVars

\* lines 1392, 1399-1403: an item is dequeued; None ends the worker
WGet(w) ==
    /\ wpc[w] = "get"
    /\ queue # <<>>
    /\ queue' = Tail(queue)
    /\ IF Head(queue) = None
         THEN /\ wpc' = [wpc EXCEPT ![w] = AfterTaskDone(unfinished_tasks, "exit")]
              /\ unfinished_tasks' = TaskDoneCount(unfinished_tasks)
              /\ wurl' = wurl
         ELSE /\ wpc' = [wpc EXCEPT ![w] = "check"]
              /\ wurl' = [wurl EXCEPT ![w] = Normalize(Head(queue))]
              /\ UNCHANGED unfinished_tasks
    /\ UNCHANGED <<site, visited, stop, downloaded, wtodo, rpc, ri, rret, mfiles,
                   fetchCount, fetchStatus>>
    /\ UNCHANGED nonMirrorVars

\* lines 1393-1397: queue.get timed out on an empty queue
WGetTimeout(w) ==
    /\ wpc[w] = "get"
    /\ queue = <<>>
    /\ wpc' = [wpc EXCEPT ![w] = IF stop THEN "exit" ELSE "loop"]
    /\ UNCHANGED <<site, queue, unfinished_tasks, visited, stop, downloaded, wurl,
                   wtodo, rpc, ri, rret, mfiles, fetchCount, fetchStatus>>
    /\ UNCHANGED nonMirrorVars

\* lines 1405-1409: check-and-insert under visited_lock
WCheck(w) ==
    /\ wpc[w] = "check"
    /\ IF AlreadyVisited(visited, wurl[w])
         THEN /\ wpc' = [wpc EXCEPT ![w] = AfterTaskDone(unfinished_tasks, "loop")]
              /\ unfinished_tasks' = TaskDoneCount(unfinished_tasks)
              /\ UNCHANGED visited
         ELSE /\ visited' = MarkVisited(visited, wurl[w])
              /\ wpc' = [wpc EXCEPT ![w] = "fetch"]
              /\ UNCHANGED unfinished_tasks
    /\ UNCHANGED <<site, queue, stop, downloaded, wurl, wtodo, rpc, ri, rret,
                   mfiles, fetchCount, fetchStatus>>
    /\ UNCHANGED nonMirrorVars

\* lines 1411-1427: session.get, then the status and content-type tests
WFetch(w) ==
    /\ wpc[w] = "fetch"
    /\ \E out \in FetchOutcomes(site, wurl[w]) :
         /\ fetchCount' = [fetchCount EXCEPT ![wurl[w]] = @ + 1]
         /\ fetchStatus' = [fetchStatus EXCEPT
                              ![wurl[w]] = IF out = "200" THEN "200" ELSE "failed"]
         /\ IF out # "200"
              THEN /\ wpc' = [wpc EXCEPT
                                ![w] = AfterTaskDone(unfinished_tasks, "loop")]
                   /\ unfinished_tasks' = TaskDoneCount(unfinished_tasks)
                   /\ UNCHANGED wtodo
              ELSE /\ wpc' = [wpc EXCEPT ![w] = IF site.pages[wurl[w]].html
                                                  THEN "parse" ELSE "save"]
                   /\ wtodo' = [wtodo EXCEPT ![w] = site.pages[wurl[w]].tags]
                   /\ UNCHANGED unfinished_tasks
    /\ UNCHANGED <<site, queue, visited, stop, downloaded, wurl, rpc, ri, rret,
                   mfiles>>
    /\ UNCHANGED nonMirrorVars

\* lines 1430-1446: the tags of the parsed page in document order; a skipped
\* href and a target outside the base domain are passed over, a same-domain
\* target is rewritten and enqueued, and a malformed href raises inside the try
\* block, which ends the walk.  Returns the queue, the puts made and whether
\* the walk raised.
RECURSIVE WalkTags(_, _, _)
WalkTags(tags, q, puts) ==
    IF tags = <<>> THEN [queue |-> q, puts |-> puts, raised |-> FALSE]
    ELSE LET tag == Head(tags) IN
         IF tag.kind = "malformed" THEN [queue |-> q, puts |-> puts, raised |-> TRUE]
         ELSE IF tag.kind = "link" /\ SameDomain(Normalize(tag.target))
           THEN WalkTags(Tail(tags), QueuePut(q, Normalize(tag.target)), puts + 1)
         ELSE WalkTags(Tail(tags), q, puts)

\* a local path <<netloc, segments>> as the list of its components under
\* output_dir
PathList(p) == <<Seg(p[1], <<>>)>> \o p[2]

\* os.path.dirname of a file path
Dirname(plist) == SubSeq(plist, 1, Len(plist) - 1)

\* the length of the common prefix of two component lists
RECURSIVE CommonPrefix(_, _)
CommonPrefix(a, b) ==
    IF a = <<>> \/ b = <<>> \/ Head(a) # Head(b) THEN 0
    ELSE 1 + CommonPrefix(Tail(a), Tail(b))

\* os.path.relpath(path, start): one ".." for every component of start below
\* the common prefix, then the rest of path
Relpath(plist, start) ==
    LET c == CommonPrefix(plist, start)
    IN [up |-> Len(start) - c, down |-> SubSeq(plist, c + 1, Len(plist))]

\* lines 1439-1443: the attribute of a same-domain link after the rewrite
Rewritten(url, target) ==
    [kind |-> "local",
     rel |-> Relpath(PathList(UrlToPath(Normalize(target))),
                     Dirname(PathList(UrlToPath(url))))]

\* lines 1430-1446: the tags of the soup after the walk over the page of url:
\* the tags before the first malformed href are rewritten when same-domain,
\* all others are as served
RECURSIVE RewriteTags(_, _)
RewriteTags(url, tags) ==
    IF tags = <<>> THEN <<>>
    ELSE LET tag == Head(tags) IN
         IF tag.kind = "malformed" THEN tags
         ELSE IF tag.kind = "link" /\ SameDomain(Normalize(tag.target))
           THEN <<Rewritten(url, tag.target)>> \o RewriteTags(url, Tail(tags))
         ELSE <<tag>> \o RewriteTags(url, Tail(tags))

\* lines 1428-1446: the page is parsed and its tags are walked
WParse(w) ==
    /\ wpc[w] = "parse"
    /\ LET r == WalkTags(wtodo[w], queue, 0) IN
         /\ queue' = r.queue
         /\ unfinished_tasks' = unfinished_tasks + r.puts
         /\ wpc' = [wpc EXCEPT ![w] = IF r.raised THEN "save_raw" ELSE "save_soup"]
    /\ wtodo' = [wtodo EXCEPT ![w] = RewriteTags(wurl[w], @)]
    /\ UNCHANGED <<site, visited, stop, downloaded, wurl, rpc, ri, rret, mfiles,
                   fetchCount, fetchStatus>>
    /\ UNCHANGED nonMirrorVars

\* line 1448 (soup.encode(): the document with the attributes as the walk left
\* them), lines 1449-1451 (resp.content, the body as served, after a parse
\* error) or line 1453 (a non-html body saved verbatim)
WSave(w) ==
    /\ wpc[w] \in {"save_soup", "save_raw", "save"}
    /\ \E written \in SaveOutcomes(site, wurl[w]) :
         mfiles' = IF written
                     THEN Save(mfiles, UrlToPath(wurl[w]),
                               [src |-> wurl[w], rewritten |-> wpc[w] = "save_soup",
                                tags |-> IF wpc[w] = "save_soup" THEN wtodo[w]
                                         ELSE site.pages[wurl[w]].tags])
                     ELSE mfiles
    /\ wtodo' = [wtodo EXCEPT ![w] = <<>>]
    /\ wpc' = [wpc EXCEPT ![w] = "count"]
    /\ UNCHANGED <<site, queue, unfinished_tasks, visited, stop, downloaded, wurl,
                   rpc, ri, rret, fetchCount, fetchStatus>>
    /\ UNCHANGED nonMirrorVars

\* lines 1455-1463: the download counter under _count_lock, the progress
\* report and task_done at the end of the iteration
WCount(w) ==
    /\ wpc[w] = "count"
    /\ downloaded' = downloaded + 1
    /\ wpc' = [wpc EXCEPT ![w] = AfterTaskDone(unfinished_tasks, "loop")]
    /\ unfinished_tasks' = TaskDoneCount(unfinished_tasks)
    /\ UNCHANGED <<site, queue, visited, stop, wurl, wtodo, rpc, ri, rret, mfiles,
                   fetchCount, fetchStatus>>
    /\ UNCHANGED nonMirrorVars

(***************************** MirrorCrawler.run ***************************)

\* lines 1472-1478: the seed (base_url = base_url.rstrip("/"), line 1342) is
\* enqueued and the worker threads are started
RunStart ==
    /\ rpc = "start"
    /\ queue' = QueuePut(queue, Rstrip(site.seed))
    /\ unfinished_tasks' = unfinished_tasks + 1
    /\ wpc' = [w \in MWorkers |-> "loop"]
    /\ rpc' = "poll"
    /\ UNCHANGED <<site, visited, stop, downloaded, wurl, wtodo, ri, rret, mfiles,
                   fetchCount, fetchStatus>>
    /\ UNCHANGED nonMirrorVars

\* line 1481: while not self._stop.is_set()
RunPoll ==
    /\ rpc = "poll"
    /\ rpc' = IF stop THEN "shutdown" ELSE "poll_empty"
    /\ UNCHANGED <<site, queue, unfinished_tasks, visited, stop, downloaded, wpc,
                   wurl, wtodo, ri, rret, mfiles, fetchCount, fetchStatus>>
    /\ UNCHANGED nonMirrorVars

\* line 1482, left operand: self.queue.empty()
RunPollEmpty ==
    /\ rpc = "poll_empty"
    /\ rpc' = IF queue = <<>> THEN "poll_unfinished" ELSE "poll"
    /\ UNCHANGED <<site, queue, unfinished_tasks, visited, stop, downloaded, wpc,
                   wurl, wtodo, ri, rret, mfiles, fetchCount, fetchStatus>>
    /\ UNCHANGED nonMirrorVars

\* line 1482, right operand: no item put on the queue is without its task_done
NothingInFlightUnchecked(n) == TRUE
NothingInFlight(n) == n = 0

\* line 1482, right operand: self.queue.unfinished_tasks == 0
RunPollUnfinished ==
    /\ rpc = "poll_unfinished"
    /\ rpc' = IF NothingInFlight(unfinished_tasks) THEN "shutdown" ELSE "poll"
    /\ UNCHANGED <<site, queue, unfinished_tasks, visited, stop, downloaded, wpc,
                   wurl, wtodo, ri, rret, mfiles, fetchCount, fetchStatus>>
    /\ UNCHANGED nonMirrorVars

\* lines 1487-1492: on cancellation the queue is cleared under its mutex and
\* the unfinished count forced to zero
RunShutdown ==
    /\ rpc = "shutdown"
    /\ IF stop
         THEN queue' = <<>> /\ unfinished_tasks' = 0
         ELSE UNCHANGED <<queue, unfinished_tasks>>
    /\ rpc' = "sentinels"
    /\ UNCHANGED <<site, visited, stop, downloaded, wpc, wurl, wtodo, ri, rret, mfiles,
                   fetchCount, fetchStatus>>
    /\ UNCHANGED nonMirrorVars

PutOneSentinel(q, n) == QueuePut(q, None)

RECURSIVE PutSentinels(_, _)
PutSentinels(q, n) == IF n = 0 THEN q ELSE PutSentinels(QueuePut(q, None), n - 1)

\* lines 1494-1495: one None per worker thread
RunSentinels ==
    /\ rpc = "sentinels"
    /\ queue' = PutSentinels(queue, NumMirrorWorkers)
    /\ unfinished_tasks' = unfinished_tasks + NumMirrorWorkers
    /\ rpc' = "join"
    /\ UNCHANGED <<site, visited, stop, downloaded, wpc, wurl, wtodo, ri, rret,
                   mfiles, fetchCount, fetchStatus>>
    /\ UNCHANGED nonMirrorVars

WorkerEnded(w) == wpc[w] \in {"exit", "crashed"}

\* lines 1496-1501: every thread is joined with timeout=6; a join returns when
\* its thread has ended or gives up on a thread still running; run() returns
\* the counter
RunJoin ==
    /\ rpc = "join"
    /\ \A w \in MWorkers : WorkerEnded(w)
    /\ rret' = downloaded
    /\ rpc' = "done"
    /\ UNCHANGED <<site, queue, unfinished_tasks, visited, stop, downloaded, wpc,
                   wurl, wtodo, ri, mfiles, fetchCount, fetchStatus>>
    /\ UNCHANGED nonMirrorVars

RunJoinTimeout ==
    /\ rpc = "join"
    /\ \E w \in MWorkers : ~WorkerEnded(w)
    /\ rret' = downloaded
    /\ rpc' = "done"
    /\ UNCHANGED <<site, queue, unfinished_tasks, visited, stop, downloaded, wpc,
                   wurl, wtodo, ri, mfiles, fetchCount, fetchStatus>>
    /\ UNCHANGED nonMirrorVars

\* one step of the thread of worker w
WorkerStep(w) ==
    \/ WLoop(w) \/ WGet(w) \/ WGetTimeout(w) \/ WCheck(w) \/ WFetch(w)
    \/ WParse(w) \/ WSave(w) \/ WCount(w)

MirrorWorker == \E w \in MWorkers : WorkerStep(w)

MirrorRun ==
    \/ RunStart \/ RunPoll \/ RunPollEmpty \/ RunPollUnfinished \/ RunShutdown
    \/ RunSentinels \/ RunJoin \/ RunJoinTimeout

NextMirror == MirrorWorker \/ MirrorRun \/ MirrorCancel

(***************************************************************************)
(* Claims about MirrorCrawler.                                              *)
(***************************************************************************)
\* the normalized form the claims speak of: fragment and trailing slashes
\* stripped
Canonical(u) == [u EXCEPT !.frag = FALSE, !.slashes = 0]

\* C1: in one run no normalized URL is fetched more than once, whatever the
\* number of times it was enqueued and whatever the outcome of its one fetch.
C1_FetchedAtMostOnce ==
    \A u \in DOMAIN fetchCount :
        /\ fetchCount[u] <= 1
        /\ \A v \in DOMAIN fetchCount :
              (v # u /\ Canonical(v) = Canonical(u))
                  => ~(fetchCount[u] > 0 /\ fetchCount[v] > 0)

\* a run that ended with page e (linked from two pages, always failing) fetched
\* once and every queued copy of it consumed
C1_Witness ==
    /\ rpc = "done"
    /\ ~stop
    /\ site = SiteCyclic
    /\ Normalize(Url(BaseDomain, PE, 1, FALSE)) \in visited
    /\ fetchStatus[Here(PE)] = "failed"
    /\ fetchCount[Here(PE)] = 1
    /\ fetchCount[Here(PRoot)] = 1
    /\ unfinished_tasks = 0

\* the same-domain link targets of the pages in S that were fetched with
\* status 200, as the page's markup lists them
LinkedFrom(S) ==
    {Canonical(t.target) :
        t \in {x \in UNION {Range(site.pages[p].tags) :
                              p \in {q \in S : fetchStatus[q] = "200"}} :
                  x.kind = "link" /\ x.target.host = BaseDomain}}

RECURSIVE ReachableFrom(_)
ReachableFrom(S) ==
    LET T == S \cup LinkedFrom(S) IN IF T = S THEN S ELSE ReachableFrom(T)

Reachable == ReachableFrom({Canonical(site.seed)})

\* C2: when a run that was not cancelled returns, every same-domain page
\* reachable from the seed through links on pages fetched with status 200 has
\* been visited exactly once.
C2_AllReachableVisitedOnce ==
    (rpc = "done" /\ ~stop) => \A u \in Reachable : fetchCount[u] = 1

\* C14: the mirror never enqueues and never fetches a URL whose host differs
\* from the host of the seed: every URL in the work queue, every URL a worker
\* holds and every URL fetched is on the seed's host.
C14_OnlySeedHost ==
    /\ \A i \in DOMAIN queue : queue[i] # None => queue[i].host = site.seed.host
    /\ \A w \in MWorkers : wurl[w] # None => wurl[w].host = site.seed.host
    /\ \A u \in DOMAIN fetchCount : fetchCount[u] > 0 => u.host = site.seed.host
    /\ \A u \in visited : u.host = site.seed.host

\* a finished run that parsed and saved a page with a link to another host
C14_Witness ==
    /\ rpc = "done"
    /\ ~stop
    /\ \E u \in DOMAIN site.pages :
         /\ fetchStatus[u] = "200"
         /\ UrlToPath(u) \in DOMAIN mfiles
         /\ mfiles[UrlToPath(u)].rewritten
         /\ \E t \in Range(site.pages[u].tags) :
              t.kind = "link" /\ t.target.host # site.seed.host

\* C15: run() returns the number of files saved: in every run, completed or
\* cancelled, the count returned equals the number of responses written to the
\* mirror tree (a run fetches a URL at most once, and distinct URLs of a site
\* have distinct local paths, so that number is the number of files).
C15_ReturnsFilesSaved ==
    rpc = "done" => rret = Cardinality(DOMAIN mfiles)

Sentinels(q) == Cardinality({i \in DOMAIN q : q[i] = None})

\* what run() does between the polling loop and the joins
ShutdownSteps ==
    /\ (rpc = "shutdown" /\ rpc' = "sentinels" /\ stop) =>
          (queue' = <<>> /\ unfinished_tasks' = 0)
    /\ (rpc = "sentinels" /\ rpc' = "join") =>
          (/\ Sentinels(queue') = Sentinels(queue) + NumMirrorWorkers
           /\ Len(queue') = Len(queue) + NumMirrorWorkers)

AllWorkersEnded == \A w \in MWorkers : WorkerEnded(w)

\* C16: mirror shutdown on cancellation.  When the stop event is set during a
\* run, run() clears the queue, forces the unfinished count to zero and puts
\* one sentinel per worker; every worker thread then ends (none stays blocked
\* on the queue) and run() returns.
C16_CancelledRunShutsDown ==
    /\ [][ShutdownSteps]_vars
    /\ stop ~> (rpc = "done" /\ AllWorkersEnded)

\* a cancelled run that cleared a queue holding URLs, whose workers all ended,
\* one of them on a sentinel
C16_Witness ==
    /\ stop
    /\ rpc = "done"
    /\ AllWorkersEnded
    /\ rret > 0
    /\ Sentinels(queue) < NumMirrorWorkers
    /\ \E u \in Reachable : fetchCount[u] = 0

\* the workers that hold a dequeued URL: between queue.get and the task_done
\* of the iteration
Processing == {w \in MWorkers : wpc[w] \notin {"unstarted", "loop", "get", "exit", "crashed"}}

\* run() is past its polling loop
LeftPolling == rpc \in {"shutdown", "sentinels", "join", "done"}

\* C31: termination detection is sound.  In a run that is not cancelled, run()
\* is past its polling loop only in states where the queue holds no URL and no
\* worker holds a dequeued URL; so no URL that was enqueued is left behind.
C31_TerminationDetectionSound ==
    (LeftPolling /\ ~stop) =>
        /\ \A i \in DOMAIN queue : queue[i] = None
        /\ Processing = {}
        /\ rpc = "shutdown" => queue = <<>> /\ unfinished_tasks = 0

\* run() has just left the polling loop of a run that fetched several URLs
C31_Witness ==
    /\ rpc = "shutdown"
    /\ ~stop
    /\ downloaded >= 2
    /\ Cardinality(visited) >= 3

\* a relative path resolved against a directory
Resolve(dir, rel) == SubSeq(dir, 1, Len(dir) - rel.up) \o rel.down

\* the saved document at local path p holds, for tag k of the page as served,
\* the attribute the claim C32 asks for
AttributeAsClaimed(p, k) ==
    LET served == site.pages[mfiles[p].src].tags[k]
        saved == mfiles[p].tags[k]
    IN IF served.kind = "link" /\ SameDomain(Normalize(served.target))
         THEN /\ saved.kind = "local"
              /\ Resolve(Dirname(PathList(p)), saved.rel)
                    = PathList(UrlToPath(Normalize(served.target)))
         ELSE saved = served

\* the pages saved from the walked soup have every attribute as claimed
SoupPagesRewritten ==
    \A p \in DOMAIN mfiles :
        mfiles[p].rewritten =>
            /\ Len(mfiles[p].tags) = Len(site.pages[mfiles[p].src].tags)
            /\ \A k \in DOMAIN mfiles[p].tags : AttributeAsClaimed(p, k)

\* C32 as stated: in every mirrored page each attribute whose absolute target
\* is same-domain holds a relative path that, resolved against the directory
\* of the page's local file, is the local file path of the target; every
\* other attribute is as served, and no URL of another domain is enqueued.
C32_LinksRewrittenToLocalPaths ==
    /\ \A p \in DOMAIN mfiles :
          /\ Len(mfiles[p].tags) = Len(site.pages[mfiles[p].src].tags)
          /\ \A k \in DOMAIN mfiles[p].tags : AttributeAsClaimed(p, k)
    /\ \A i \in DOMAIN queue : queue[i] # None => SameDomain(queue[i])

\* the positions of a worker in the order of one iteration of its loop: the
\* wait in queue.get, the visited test, the fetch, the handling of the
\* response, the test of the loop, the end of the thread
Stage(pos) ==
    CASE pos = "unstarted" -> 0
      [] pos = "get" -> 1
      [] pos = "check" -> 2
      [] pos = "fetch" -> 3
      [] pos \in {"parse", "save_soup", "save_raw", "save", "count"} -> 4
      [] pos = "loop" -> 5
      [] pos \in {"exit", "crashed"} -> 6

\* C35: once the stop flag is set no worker goes back in its loop: it takes a
\* URL from the queue only if it was already waiting in queue.get, starts a
\* fetch only for the URL it took then, and after that fetch reaches the test
\* of the loop and ends.  So each worker starts at most one more fetch and
\* takes no URL from the queue after it.
C35_OneFetchAfterCancel ==
    [][stop => \A w \in MWorkers :
                  /\ Stage(wpc'[w]) >= Stage(wpc[w])
                  /\ wpc[w] = "loop" => wpc'[w] \in {"loop", "exit"}]_vars

\* the flag is set while run() still polls, one worker has left its loop and
\* another is about to start the fetch of the URL it holds
C35_Witness ==
    /\ stop
    /\ rpc \in {"poll", "poll_empty", "poll_unfinished"}
    /\ \E w, v \in MWorkers : wpc[w] = "exit" /\ wpc[v] = "fetch"

\* every item put on the queue and not yet marked done is in the queue or held
\* by one worker
EveryItemDoneOnce == unfinished_tasks = Len(queue) + Cardinality(Processing)

\* the accounting holds as long as the run is not cancelled
AccountingWithoutCancel ==
    ~stop => EveryItemDoneOnce /\ \A w \in MWorkers : wpc[w] # "crashed"

\* C36 as stated: a worker calls task_done once for every item it took from
\* the queue, and no call finds the unfinished count at zero (no worker ends
\* with 'task_done() called too many times'), in cancelled runs as well.
C36_TaskDoneOncePerItem ==
    /\ \A w \in MWorkers : wpc[w] # "crashed"
    /\ unfinished_tasks >= 0
    /\ unfinished_tasks >= Cardinality(Processing)

\* C37 as stated: two distinct normalized URLs visited in one run never have
\* the same local file path, and no saved file is overwritten with the
\* content of another URL.
C37_LocalPathsInjective ==
    /\ [](\A u, v \in visited : u # v => UrlToPath(u) # UrlToPath(v))
    /\ [][\A p \in DOMAIN mfiles : mfiles'[p].src = mfiles[p].src]_vars

(***************************************************************************)
(* MediaDownloader.  One store instance (VBulletinBackup._media_dl, lines   *)
(* 237-239) is shared by the pool threads of run_backup (lines 476-477),    *)
(* each of which calls download_from_html from download_thread; the store   *)
(* takes no lock.                                                           *)
(***************************************************************************)
IMAGE_EXTS == {"jpg", "jpeg", "png", "gif", "webp", "bmp", "svg", "tiff", "avif"}
VIDEO_EXTS == {"mp4", "webm", "mov", "avi", "mkv", "ogv", "flv", "m4v"}
AUDIO_EXTS == {"mp3", "ogg", "wav", "aac", "flac", "m4a", "opus"}
MEDIA_EXTS == IMAGE_EXTS \cup VIDEO_EXTS \cup AUDIO_EXTS

\* a media reference after urljoin(page_base_url, ...): scheme, directory and
\* basename, the basename being stem, "_n" suffixes and extension
MediaUrl(scheme, dir, stem, sfx, ext) ==
    [scheme |-> scheme, dir |-> dir, stem |-> stem, sfx |-> sfx, ext |-> ext]

\* get_ext
GetExt(u) == u.ext

\* line 163: the filter on extension and scheme
IsMediaUrl(u) == GetExt(u) \in MEDIA_EXTS /\ u.scheme \in {"http", "https"}

\* lines 174-177: the file name derived from the URL's basename
Fname(u) == [stem |-> u.stem, sfx |-> u.sfx, ext |-> u.ext]

\* lines 179-184: fpath is fname, then base_1.ext, base_2.ext, ... until
\* os.path.exists(fpath) is false
RECURSIVE FreeName(_, _, _)
FreeName(fs, fname, counter) ==
    LET fpath == IF counter = 0 THEN fname
                 ELSE [fname EXCEPT !.sfx = Append(@, counter)]
    IN  IF fpath \in DOMAIN fs THEN FreeName(fs, fname, counter + 1)
                                  ELSE fpath

MU1 == MediaUrl("http", "a", "pic", <<>>, "png")
MU2 == MediaUrl("http", "b", "pic", <<>>, "png")
MU3 == MediaUrl("http", "a", "pic", <<1>>, "png")
MU4 == MediaUrl("ftp", "a", "clip", <<>>, "mp4")
MU5 == MediaUrl("http", "a", "track", <<>>, "")

\* the media references of the pages harvested (lines 140-160)
MediaPages == {{MU1, MU5}, {MU1, MU2}, {MU3, MU4}}

MediaUrls == UNION MediaPages

\* two pool threads of run_backup that share the store
Harvesters == {"pool-1", "pool-2"}

\* _media_index.json: not there or just opened for writing, holding a dumped
\* index, or written by two threads at once, each through its own handle
IndexEmpty == [state |-> "empty"]
IndexStored(ix) == [state |-> "ok", data |-> ix]
IndexTorn == [state |-> "torn"]

MediaInit ==
    /\ index = <<>>
    /\ indexFile = IndexEmpty
    /\ mediaDir = <<>>
    /\ stop_event = FALSE
    /\ hpc = [h \in Harvesters |-> "idle"]
    /\ hurls = [h \in Harvesters |-> {}]
    /\ hurl = [h \in Harvesters |-> None]
    /\ hfpath = [h \in Harvesters |-> None]
    /\ hcount = [h \in Harvesters |-> 0]
    /\ harvests = 0
    /\ mfetches = [u \in MediaUrls |-> 0]
    /\ harvested = [u \in MediaUrls |-> 0]
    /\ overwritten = {}
    /\ mediaFault = FALSE
    /\ hskipped = [h \in Harvesters |-> {}]

\* the shell sets the stop event
MediaCancel ==
    /\ ~stop_event
    /\ stop_event' = TRUE
    /\ UNCHANGED <<index, indexFile, mediaDir, hpc, hurls, hurl, hfpath, hcount,
                   harvests, mfetches, harvested, overwritten, mediaFault,
                   hskipped>>
    /\ UNCHANGED nonMediaVars

\* lines 138-165: a pool thread calls download_from_html on a page
HStart(h) ==
    /\ hpc[h] = "idle"
    /\ harvests < MaxHarvests
    /\ \E page \in MediaPages :
         LET media_urls == {u \in page : IsMediaUrl(u)} IN
         /\ hurls' = [hurls EXCEPT ![h] = media_urls]
         /\ harvested' = [u \in MediaUrls |->
                            harvested[u] + IF u \in media_urls THEN 1 ELSE 0]
    /\ hcount' = [hcount EXCEPT ![h] = 0]
    /\ hskipped' = [hskipped EXCEPT ![h] = {}]
    /\ harvests' = harvests + 1
    /\ hpc' = [hpc EXCEPT ![h] = "loop"]
    /\ UNCHANGED <<index, indexFile, mediaDir, stop_event, hurl, hfpath, mfetches,
                   overwritten, mediaFault>>
    /\ UNCHANGED nonMediaVars

\* lines 166-170: the loop head; media_urls comes from a set, so its order is
\* any order
HNext(h) ==
    /\ hpc[h] = "loop"
    /\ IF stop_event \/ hurls[h] = {}
         THEN /\ hpc' = [hpc EXCEPT ![h] = "save_index"]
              /\ UNCHANGED <<hurls, hurl>>
         ELSE \E url \in hurls[h] :
                /\ hurls' = [hurls EXCEPT ![h] = @ \ {url}]
                /\ IF url \in DOMAIN index
                     THEN UNCHANGED <<hpc, hurl>>
                     ELSE /\ hurl' = [hurl EXCEPT ![h] = url]
                          /\ hpc' = [hpc EXCEPT ![h] = "fetch"]
    /\ UNCHANGED <<index, indexFile, mediaDir, stop_event, hfpath, hcount, harvests,
                   mfetches, harvested, overwritten, mediaFault,
                   hskipped>>
    /\ UNCHANGED nonMediaVars

AfterSkipAborts == "save_index"

\* lines 172-173 and 192-193: after a failed fetch (continue) and after a
\* failed write (the handler ends the loop body) the loop goes on
AfterSkip == "loop"

\* lines 171-173 and _fetch_bytes: the body, or None after an error
HFetch(h) ==
    /\ hpc[h] = "fetch"
    /\ \E ok \in BOOLEAN :
         IF ok
           THEN /\ mfetches' = [mfetches EXCEPT ![hurl[h]] = @ + 1]
                /\ hpc' = [hpc EXCEPT ![h] = "name"]
                /\ UNCHANGED <<mediaFault, hskipped>>
           ELSE /\ mediaFault' = TRUE
                /\ hskipped' = [hskipped EXCEPT ![h] = @ \cup {hurl[h]}]
                /\ hpc' = [hpc EXCEPT ![h] = AfterSkip]
                /\ UNCHANGED mfetches
    /\ UNCHANGED <<index, indexFile, mediaDir, stop_event, hurls, hurl, hfpath,
                   hcount, harvests, harvested, overwritten>>
    /\ UNCHANGED nonMediaVars

\* lines 174-184: the collision-avoiding name
HName(h) ==
    /\ hpc[h] = "name"
    /\ hfpath' = [hfpath EXCEPT ![h] = FreeName(mediaDir, Fname(hurl[h]), 0)]
    /\ hpc' = [hpc EXCEPT ![h] = "write"]
    /\ UNCHANGED <<index, indexFile, mediaDir, stop_event, hurls, hurl, hcount,
                   harvests, mfetches, harvested, overwritten, mediaFault,
                   hskipped>>
    /\ UNCHANGED nonMediaVars

\* lines 185-193: open(fpath, 'wb') and write, then the index entry; an
\* exception is logged and the URL is skipped
HWrite(h) ==
    /\ hpc[h] = "write"
    /\ \E ok \in BOOLEAN :
         IF ok
           THEN /\ overwritten' = IF hfpath[h] \in DOMAIN mediaDir
                                    THEN overwritten \cup {hfpath[h]}
                                    ELSE overwritten
                /\ mediaDir' = (hfpath[h] :> hurl[h]) @@ mediaDir
                /\ index' = (hurl[h] :> hfpath[h]) @@ index
                /\ hcount' = [hcount EXCEPT ![h] = @ + 1]
                /\ hpc' = [hpc EXCEPT ![h] = "loop"]
                /\ UNCHANGED <<mediaFault, hskipped>>
           ELSE /\ mediaFault' = TRUE
                /\ hskipped' = [hskipped EXCEPT ![h] = @ \cup {hurl[h]}]
                /\ hpc' = [hpc EXCEPT ![h] = AfterSkip]
                /\ UNCHANGED <<overwritten, mediaDir, index, hcount>>
    /\ UNCHANGED <<indexFile, stop_event, hurls, hurl, hfpath, harvests, mfetches,
                   harvested>>
    /\ UNCHANGED nonMediaVars

\* the threads that have the index file open for writing
IndexWriters == {h \in Harvesters : hpc[h] = "dumping"}

\* what the index file holds when the dump of thread h ends
IndexDumpOutcomes(h) ==
    IF IndexWriters \ {h} = {} THEN {IndexStored(index)}
    ELSE {IndexStored(index), IndexTorn}

\* lines 195-196 and 116-118: _save_index opens the index file for writing,
\* which empties it; no lock is taken
HSaveIndex(h) ==
    /\ hpc[h] = "save_index"
    /\ indexFile' = IndexEmpty
    /\ hpc' = [hpc EXCEPT ![h] = "dumping"]
    /\ UNCHANGED <<index, mediaDir, stop_event, hurls, hurl, hfpath, hcount,
                   harvests, mfetches, harvested, overwritten, mediaFault,
                   hskipped>>
    /\ UNCHANGED nonMediaVars

\* lines 119-121: json.dump ends and the file is closed
HIndexSaved(h) ==
    /\ hpc[h] = "dumping"
    /\ indexFile' \in IndexDumpOutcomes(h)
    /\ hpc' = [hpc EXCEPT ![h] = "idle"]
    /\ UNCHANGED <<index, mediaDir, stop_event, hurls, hurl, hfpath, hcount,
                   harvests, mfetches, harvested, overwritten, mediaFault,
                   hskipped>>
    /\ UNCHANGED nonMediaVars

Harvester ==
    \E h \in Harvesters :
        \/ HStart(h) \/ HNext(h) \/ HFetch(h) \/ HName(h) \/ HWrite(h)
        \/ HSaveIndex(h) \/ HIndexSaved(h)

NextMedia == Harvester \/ MediaCancel

(***************************************************************************)
(* Claims about MediaDownloader.                                            *)
(***************************************************************************)
AllHarvestsEnded == \A h \in Harvesters : hpc[h] = "idle"

\* C3: a media URL that appeared in two harvests of one store is fetched
\* exactly once and has exactly one index entry (stated for runs in which no
\* fetch and no file write failed and the stop event was not set).
C3_HarvestedTwiceFetchedOnce ==
    (AllHarvestsEnded /\ ~mediaFault /\ ~stop_event) =>
        \A u \in MediaUrls :
            harvested[u] >= 2 => (mfetches[u] = 1 /\ u \in DOMAIN index)

\* C4: a harvested media file is never written to a path that names a file
\* already in the media directory.
C4_NoMediaFileOverwritten == overwritten = {}

\* C17: the writers of the media index file are serialized: at no time do two
\* threads have the index file of the shared store open for writing.
C17_OneIndexWriter == Cardinality(IndexWriters) <= 1

\* a step in which thread h skips a URL after a failed fetch or a failed write
SkipStep(h) == hskipped'[h] \ hskipped[h] # {}

\* C23: a failed fetch or a failed write of one media URL is skipped and does
\* not end the harvest pass.  The step that fails leaves the index and the
\* count as they are and takes the thread back to the head of its loop with
\* the URLs still to do untouched, and a pass that ends without the stop event
\* has gone through every media URL of the page.
C23_FailureSkipsOneUrl ==
    /\ [][\A h \in Harvesters :
            SkipStep(h) => /\ index' = index
                           /\ hcount' = hcount
                           /\ hurls' = hurls
                           /\ hpc'[h] = "loop"]_vars
    /\ [](\A h \in Harvesters :
            (hpc[h] = "save_index" /\ ~stop_event) => hurls[h] = {})

\* a pass is about to return 1: it skipped one URL of the page and stored
\* another one
C23_Witness ==
    \E h \in Harvesters :
        /\ hpc[h] = "save_index"
        /\ ~stop_event
        /\ hskipped[h] # {}
        /\ hcount[h] = 1
        /\ \A u \in hskipped[h] : u \notin DOMAIN index

\* every entry of the index names a file of the media directory
EntriesNameWrittenFiles == \A u \in DOMAIN index : index[u] \in DOMAIN mediaDir

\* C29 as stated: the media index is append-only: an entry url -> filename of
\* the store is never changed or removed by a later harvest, sequential or
\* concurrent, and an entry is recorded only after the file it names has been
\* written.
C29_IndexAppendOnly ==
    /\ [][\A u \in DOMAIN index : u \in DOMAIN index' /\ index'[u] = index[u]]_vars
    /\ []EntriesNameWrittenFiles

(***************************************************************************)
(* VBulletinBackup: thread discovery.                                       *)
(***************************************************************************)
Min(a, b) == IF a < b THEN a ELSE b

Max(S) == CHOOSE x \in S : \A y \in S : y <= x

\* start_page (default of __init__) and the pool caps of the two phases
StartPage == 1

DiscoveryPoolCap == 6

BackupPoolCap == 8

\* an anchor of a listing page: the shape of its href, the number after t= or
\* after the last dot (0: none), and its text
Anchor(shape, t, title) == [shape |-> shape, t |-> t, title |-> title]

\* the three selectors of extract_thread_links, in the order they are tried
LinkPatterns == <<"showthread.php", "/threads/", "viewtopic.php">>

\* extract_thread_id: the id, or 0 for None
ExtractThreadId(a) ==
    IF a.shape \in Range(LinkPatterns) /\ a.t > 0 THEN a.t ELSE 0

Unit(a) == [id |-> ExtractThreadId(a), url |-> [shape |-> a.shape, t |-> a.t],
            title |-> a.title]

\* lines 295-299 and 363-366: the first unit of each id, in first-seen order
RECURSIVE UniqueFrom(_, _, _)
UniqueFrom(list, seen, unique) ==
    IF list = <<>> THEN unique
    ELSE IF Head(list).id \in seen
      THEN UniqueFrom(Tail(list), seen, unique)
      ELSE UniqueFrom(Tail(list), seen \cup {Head(list).id}, Append(unique, Head(list)))

UniqueKeepsAll(list) == list

UniqueById(list) == UniqueFrom(list, {}, <<>>)

Ids(ts) == {t.id : t \in Range(ts)}

\* lines 283-290: for each selector, the matching anchors in document order
RECURSIVE SelectLinks(_, _)
SelectLinks(anchors, pattern) ==
    IF anchors = <<>> THEN <<>>
    ELSE LET rest == SelectLinks(Tail(anchors), pattern) IN
         IF Head(anchors).shape = pattern /\ ExtractThreadId(Head(anchors)) # 0
           THEN <<Unit(Head(anchors))>> \o rest
           ELSE rest

\* extract_thread_links
ExtractThreadLinks(anchors) ==
    UniqueById(SelectLinks(anchors, LinkPatterns[1])
               \o SelectLinks(anchors, LinkPatterns[2])
               \o SelectLinks(anchors, LinkPatterns[3]))

\* get_all_pages_urls: section_url, then the pages start_page..max; a page is
\* named by its number, section_url being page 1
GetAllPagesUrls(fetched, page_numbers, start_page) ==
    IF ~fetched \/ page_numbers = {} THEN <<1>>
    ELSE <<1>> \o [i \in 1..(Max(page_numbers) - start_page + 1) |-> start_page + i - 1]

\* the listing served: its pager and the anchors of each page.  Unit 1 is
\* linked twice on page 1 with different text, unit 2 on both pages through
\* different URL shapes.
ListingPager == {MaxListingPage}

ListingAnchors(n) ==
    IF n = 1
      THEN <<Anchor("showthread.php", 1, "Alpha"),
             Anchor("member.php", 7, "someone"),
             Anchor("/threads/", 2, "Beta"),
             Anchor("showthread.php", 1, "Alpha - last page"),
             Anchor("showthread.php", 0, "post link")>>
    ELSE IF n = 2
      THEN <<Anchor("viewtopic.php", 2, "Beta (moved)"),
             Anchor("showthread.php", 3, "Gamma")>>
    ELSE <<Anchor("/threads/", n, "Delta"),
           Anchor("showthread.php", 1, "Alpha")>>

DiscInit ==
    /\ dpc = "start"
    /\ dpages = <<>>
    /\ dtask = <<>>
    /\ dres = <<>>
    /\ dcollected = {}
    /\ all_threads = <<>>
    /\ dunique = <<>>
    /\ dfailed = {}

DiscCancel ==
    /\ ~stop_event
    /\ dpc # "done"
    /\ stop_event' = TRUE
    /\ UNCHANGED <<discVars, nonDiscVars>>

\* lines 335-338 and 356: the listing is paged and one future per page is
\* submitted
DStart ==
    /\ dpc = "start"
    /\ \E fetched \in BOOLEAN :
         dpages' = GetAllPagesUrls(fetched, ListingPager, StartPage)
    /\ dtask' = [i \in DOMAIN dpages' |-> "pending"]
    /\ dres' = [i \in DOMAIN dpages' |-> <<>>]
    /\ dpc' = "collect"
    /\ UNCHANGED <<dcollected, all_threads, dunique, stop_event, dfailed>>
    /\ UNCHANGED nonDiscVars

DiscRunning == {i \in DOMAIN dtask : dtask[i] = "running"}

\* line 355 and line 341: a pool thread takes the next future in submission
\* order; process_page returns [] when the stop event is set
DTaskBegin(i) ==
    /\ dpc # "start"
    /\ i \in DOMAIN dtask
    /\ dtask[i] = "pending"
    /\ \A j \in DOMAIN dtask : j < i => dtask[j] # "pending"
    /\ Cardinality(DiscRunning) < Min(MaxWorkers, DiscoveryPoolCap)
    /\ dtask' = [dtask EXCEPT ![i] = IF stop_event THEN "done" ELSE "running"]
    /\ UNCHANGED <<dpc, dpages, dres, dcollected, all_threads, dunique, stop_event, dfailed>>
    /\ UNCHANGED nonDiscVars

\* lines 342-352: the page is fetched and its thread links extracted; a failed
\* fetch or an empty body gives []
DTaskFetch(i) ==
    /\ i \in DOMAIN dtask
    /\ dtask[i] = "running"
    /\ \E fetched \in BOOLEAN :
         /\ dres' = [dres EXCEPT ![i] = IF fetched
                                          THEN ExtractThreadLinks(ListingAnchors(dpages[i]))
                                          ELSE <<>>]
         /\ dfailed' = IF fetched THEN dfailed ELSE dfailed \cup {i}
    /\ dtask' = [dtask EXCEPT ![i] = "done"]
    /\ UNCHANGED <<dpc, dpages, dcollected, all_threads, dunique, stop_event>>
    /\ UNCHANGED nonDiscVars

ExtendReplaces(list, result) == result

\* line 360: all_threads.extend(future.result())
Extend(list, result) == list \o result

\* lines 357-361: as_completed yields a finished future; the loop breaks when
\* the stop event is set, else the result is appended
DCollect(i) ==
    /\ dpc = "collect"
    /\ i \in DOMAIN dtask
    /\ dtask[i] = "done"
    /\ i \notin dcollected
    /\ IF stop_event
         THEN /\ dpc' = "wait"
              /\ UNCHANGED <<dcollected, all_threads>>
         ELSE /\ all_threads' = Extend(all_threads, dres[i])
              /\ dcollected' = dcollected \cup {i}
              /\ dpc' = IF dcollected' = DOMAIN dtask THEN "wait" ELSE "collect"
    /\ UNCHANGED <<dpages, dtask, dres, dunique, stop_event, dfailed>>
    /\ UNCHANGED nonDiscVars

\* lines 355 (the executor is left once every future has ended) and 363-368
DDedup ==
    /\ dpc = "wait"
    /\ \A i \in DOMAIN dtask : dtask[i] = "done"
    /\ dunique' = UniqueById(all_threads)
    /\ dpc' = "done"
    /\ UNCHANGED <<dpages, dtask, dres, dcollected, all_threads, stop_event, dfailed>>
    /\ UNCHANGED nonDiscVars

DiscTask == \E i \in 1..(MaxListingPage + 1) : DTaskBegin(i) \/ DTaskFetch(i) \/ DCollect(i)

NextDiscover == DStart \/ DiscTask \/ DDedup \/ DiscCancel

(***************************************************************************)
(* Claims about thread discovery.                                           *)
(***************************************************************************)
\* the place of the first unit with this id in the aggregated results
FirstSeen(id) ==
    CHOOSE k \in DOMAIN all_threads :
        /\ all_threads[k].id = id
        /\ \A m \in 1..(k - 1) : all_threads[m].id # id

\* C5: the returned list holds no two units with the same id, and for each id
\* of the aggregated results the unit kept is the first one seen, in first-seen
\* order, whatever the order in which the page scans completed.
C5_UniqueFirstSeen ==
    dpc = "done" =>
        /\ \A i, j \in DOMAIN dunique : dunique[i].id = dunique[j].id => i = j
        /\ {u.id : u \in Range(dunique)} = {u.id : u \in Range(all_threads)}
        /\ \A i \in DOMAIN dunique : dunique[i] = all_threads[FirstSeen(dunique[i].id)]
        /\ \A i, j \in DOMAIN dunique :
             i < j => FirstSeen(dunique[i].id) < FirstSeen(dunique[j].id)

\* page 2 was collected before page 1: unit 2 is kept in the form page 2 gave
\* it, although page 1 (scanned twice) lists it too
C5_Witness ==
    /\ dpc = "done"
    /\ Len(all_threads) = 6
    /\ Len(dunique) = 3
    /\ dunique[1].title = "Gamma"
    /\ dunique[2].title = "Beta (moved)"
    /\ \E k \in DOMAIN all_threads : all_threads[k].title = "Beta"

\* the units linked on the listing pages whose fetch gave a body
FoundOnFetchedPages ==
    UNION {Ids(ExtractThreadLinks(ListingAnchors(dpages[i]))) :
              i \in DOMAIN dtask \ dfailed}

C30_PagesStartToMax ==
    dpc # "start" =>
        dpages \in {<<1>>,
                    [i \in 1..(Max(ListingPager) - StartPage + 1) |-> StartPage + i - 1]}

(***************************************************************************)
(* VBulletinBackup: run_backup, download_single and download_thread, with   *)
(* download_media off (self._media_dl is None).  One instance is built per  *)
(* run_backup call, as the shell does; the shell clears the stop event       *)
(* before it starts a run.  Timestamps are the number of the run.           *)
(***************************************************************************)
UnitIds == 1..NumUnits

\* a page body: its byte length and which of the bodies of that length it is
Content(len, v) == [len |-> len, v |-> v]

\* len(page_content.encode('utf-8')) and os.path.getsize of the file written
Size(c) == c.len

\* a unit as served: how its primary URL answers ("ok", "down", or "flaky":
\* the first fetch of a run fails), the bodies of its pages, the page numbers
\* its pager links show, and the pages (2 and up) whose fetch fails
Source(primary, pages, pager, down) ==
    [primary |-> primary, pages |-> pages, pager |-> pager, down |-> down]

\* the server answers a page number past the last page with the last page
Served(source, k) == source.pages[Min(k, Len(source.pages))]

\* get_thread_pages: thread_url, then pages 2..max(page_numbers)
GetThreadPages(pager) == IF pager = {} THEN 1 ELSE Max(pager \cup {1})

\* get_page on the primary URL: None on an error
PrimaryFetchedAlways(source, earlier) == TRUE
PrimaryFetched(source, earlier) ==
    source.primary = "ok" \/ (source.primary = "flaky" /\ earlier > 0)

\* get_page on page k of the unit
PageFetched(source, k) == k \notin source.down

\* load_metadata: the file's record, or the default when the file is absent
\* or unreadable
DefaultMetadata ==
    [threads |-> <<>>, last_backup |-> 0, total_threads |-> 0, completed_threads |-> 0]

Absent == [state |-> "absent"]
Corrupt == [state |-> "corrupt"]
Stored(md) == [state |-> "ok", data |-> md]

LoadMetadataIgnoresFile(file) == DefaultMetadata

LoadMetadata(file) == IF file.state = "ok" THEN file.data ELSE DefaultMetadata

\* save_metadata: last_backup is set, then the record is dumped as a whole
Stamp(md, now) == [md EXCEPT !.last_backup = now]

\* line 460: the discovered units whose id is not in the metadata
ToDownloadAll(ts, md) == ts

ToDownload(ts, md) == SelectSeq(ts, LAMBDA t : t.id \notin DOMAIN md.threads)

\* lines 401 and 417: self._stop_event.is_set() at the start of download_thread
\* and at the head of the page loop
StopSeenAtStartNever(flag) == FALSE

StopSeenAtStart(flag) == flag

StopSeenInLoop(flag) == flag

\* line 434: the end-of-thread test on byte lengths
SameSizeNever(previous_size, current_size) == FALSE

SameSizeAsPrevious(previous_size, current_size) ==
    previous_size # -1 /\ current_size = previous_size

NextPageShuffled(page_num) ==
    IF page_num = 1 THEN 3 ELSE IF page_num = 3 THEN 2 ELSE MaxPages + 2

\* line 416: enumerate(thread_pages, 1) goes through the pages in list order
NextPage(page_num) == page_num + 1

\* line 422: os.path.exists(filepath)
FileExists(fs, u, page_num) == <<u, page_num>> \in DOMAIN fs

CountedNot(downloaded_pages) == downloaded_pages

\* lines 423 and 437: downloaded_pages += 1
Counted(downloaded_pages) == downloaded_pages + 1

\* lines 447-450: the ThreadRecord
ThreadRecord(t, pages, now) ==
    [title |-> t.title, url |-> t.url, pages |-> pages, downloaded_at |-> now]

UnitOf(id) == CHOOSE t \in Range(threads) : t.id = id

\* the units of this run that ended with a primary URL the server does not
\* give
FailedUnits ==
    {u \in UnitIds : upc[u] = "finished" /\ src[u].primary = "down" /\ ufetch1[u] >= 1}

\* the pool threads of run_backup (line 476) that are busy
BackupRunning == {u \in UnitIds : upc[u] \in {"primary", "page", "fetch", "record", "retry"}}

\* save_metadata holds no lock.  When no pool thread has put a ThreadRecord into
\* the dict since the dump began, the file holds the metadata; else json.dump
\* has walked the dict while it grew: it wrote it without the new records, or
\* with them, or raised and left a truncated file
DumpOutcomes(began, now) ==
    IF now.threads = began.threads THEN {Stored(now)}
    ELSE {Stored(began), Stored(now), Corrupt}

\* the position of u in threads_to_download
TodoIndex(u) == CHOOSE i \in DOMAIN todo : todo[i].id = u

UnitsIdle ==
    /\ upc = [u \in UnitIds |-> "none"]
    /\ uattempt = [u \in UnitIds |-> 1]
    /\ uresult = [u \in UnitIds |-> FALSE]
    /\ unpages = [u \in UnitIds |-> 0]
    /\ upage = [u \in UnitIds |-> 0]
    /\ udownloaded = [u \in UnitIds |-> 0]
    /\ uprev = [u \in UnitIds |-> -1]
    /\ ufetch1 = [u \in UnitIds |-> 0]
    /\ upfetched = [u \in UnitIds |-> {}]
    /\ uwritten = [u \in UnitIds |-> {}]
    /\ uinterrupted = [u \in UnitIds |-> FALSE]

\* the state of a fresh instance, whatever the forum and the disk
BackupFresh ==
    /\ metadata = DefaultMetadata
    /\ run = 1
    /\ bpc = "new"
    /\ threads = <<>>
    /\ todo = <<>>
    /\ collected = {}
    /\ completed = 0
    /\ successful = 0
    /\ bret = -1
    /\ progress = <<>>
    /\ UnitsIdle
    /\ pendingAtStop = {}
    /\ loadedIds = {}
    /\ snap = [taken |-> FALSE, files |-> files]
    /\ utrace = [u \in UnitIds |-> <<>>]
    /\ bdump = <<>>
    /\ uexisting = [u \in UnitIds |-> {}]
    /\ uharvest = [u \in UnitIds |-> {}]

\* the shell sets the stop event during a run; pendingAtStop keeps the units
\* whose download has not started by then
BackupCancel ==
    /\ ~stop_event
    /\ bpc # "done"
    /\ stop_event' = TRUE
    /\ pendingAtStop' = {u \in UnitIds : upc[u] \in {"none", "queued"}}
    /\ UNCHANGED <<src, listing, metadataFile, metadata, files, run, bpc, threads,
                   todo, collected, completed, successful, bret, progress, upc,
                   uattempt, uresult, unpages, upage, udownloaded, uprev, ufetch1,
                   upfetched, uwritten, uinterrupted, loadedIds, snap>>
    /\ UNCHANGED <<utrace, bdump, download_media, uexisting, uharvest>>
    /\ UNCHANGED unwritable
    /\ UNCHANGED nonBackupVars

\* lines 233-236: __init__ loads the metadata file
BNew ==
    /\ bpc = "new"
    /\ metadata' = LoadMetadata(metadataFile)
    /\ loadedIds' = DOMAIN metadata'.threads
    /\ bpc' = "discover"
    /\ UNCHANGED <<src, listing, metadataFile, files, run, threads, todo, collected,
                   completed, successful, bret, progress, upc, uattempt, uresult,
                   unpages, upage, udownloaded, uprev, ufetch1, upfetched, uwritten,
                   uinterrupted, pendingAtStop, snap, stop_event>>
    /\ UNCHANGED <<utrace, bdump, download_media, uexisting, uharvest>>
    /\ UNCHANGED unwritable
    /\ UNCHANGED nonBackupVars

\* lines 456-462 and 477: discovery (its result is the deduplicated listing, or
\* nothing when the listing cannot be fetched); with no unit run_backup returns
\* 0; else the units absent from the metadata are submitted to the pool
BDiscover ==
    /\ bpc = "discover"
    /\ \E found \in BOOLEAN :
         /\ threads' = IF found THEN UniqueById(listing) ELSE <<>>
         /\ IF threads' = <<>>
              THEN /\ bpc' = "done"
                   /\ bret' = 0
                   /\ UNCHANGED <<metadata, todo, upc>>
              ELSE /\ metadata' = [metadata EXCEPT !.total_threads = Len(threads')]
                   /\ todo' = ToDownload(threads', metadata)
                   /\ upc' = [u \in UnitIds |->
                                IF u \in Ids(todo') THEN "queued" ELSE "none"]
                   /\ bpc' = IF todo' = <<>> THEN "exit" ELSE "collect"
                   /\ UNCHANGED bret
    /\ UNCHANGED <<src, listing, metadataFile, files, run, collected, completed,
                   successful, progress, uattempt, uresult, unpages, upage,
                   udownloaded, uprev, ufetch1, upfetched, uwritten, uinterrupted,
                   pendingAtStop, loadedIds, snap, stop_event>>
    /\ UNCHANGED <<utrace, bdump, download_media, uexisting, uharvest>>
    /\ UNCHANGED unwritable
    /\ UNCHANGED nonBackupVars

\* lines 464-470: what download_single does with a False from download_thread:
\* the first one is followed by the backoff sleep and the retry, the second
\* one is the future's result
MayRetryTwice(attempt) == attempt <= 2

\* line 467: the retry is written once, after the first call only
MayRetry(attempt) == attempt = 1

AfterFalse(u, trace) ==
    IF MayRetry(uattempt[u])
      THEN /\ upc' = [upc EXCEPT ![u] = "retry"]
           /\ uattempt' = [uattempt EXCEPT ![u] = @ + 1]
           /\ utrace' = [utrace EXCEPT ![u] = trace \o <<"False", "sleep">>]
           /\ UNCHANGED uresult
      ELSE /\ upc' = [upc EXCEPT ![u] = "finished"]
           /\ uresult' = [uresult EXCEPT ![u] = FALSE]
           /\ utrace' = [utrace EXCEPT ![u] = Append(trace, "False")]
           /\ UNCHANGED uattempt

\* line 476 (a pool thread takes the next future in submission order) and
\* line 401: download_thread returns False when the stop event is set
DTStart(u) ==
    /\ \/ /\ upc[u] = "queued"
          /\ Cardinality(BackupRunning) < Min(MaxWorkers, BackupPoolCap)
          /\ \A v \in UnitIds : upc[v] = "queued" => TodoIndex(u) <= TodoIndex(v)
       \/ upc[u] = "retry"
    /\ IF StopSeenAtStart(stop_event)
         THEN AfterFalse(u, Append(utrace[u], "call"))
         ELSE /\ upc' = [upc EXCEPT ![u] = "primary"]
              /\ utrace' = [utrace EXCEPT ![u] = Append(@, "call")]
              /\ UNCHANGED <<uattempt, uresult>>
    /\ UNCHANGED <<src, listing, metadataFile, metadata, files, run, bpc, threads,
                   todo, collected, completed, successful, bret, progress, unpages,
                   upage, udownloaded, uprev, ufetch1, upfetched, uwritten,
                   uinterrupted, pendingAtStop, loadedIds, snap, stop_event>>
    /\ UNCHANGED <<bdump, download_media, uexisting, uharvest>>
    /\ UNCHANGED unwritable
    /\ UNCHANGED nonBackupVars

\* lines 407-415: the primary URL is fetched and the unit's pages discovered
DTPrimary(u) ==
    /\ upc[u] = "primary"
    /\ ufetch1' = [ufetch1 EXCEPT ![u] = @ + 1]
    /\ IF PrimaryFetched(src[u], ufetch1[u])
         THEN /\ unpages' = [unpages EXCEPT ![u] = GetThreadPages(src[u].pager)]
              /\ upage' = [upage EXCEPT ![u] = 1]
              /\ udownloaded' = [udownloaded EXCEPT ![u] = 0]
              /\ uprev' = [uprev EXCEPT ![u] = -1]
              /\ upc' = [upc EXCEPT ![u] = "page"]
              /\ UNCHANGED <<uattempt, uresult, utrace>>
         ELSE /\ AfterFalse(u, utrace[u])
              /\ UNCHANGED <<unpages, upage, udownloaded, uprev>>
    /\ UNCHANGED <<src, listing, metadataFile, metadata, files, run, bpc, threads,
                   todo, collected, completed, successful, bret, progress,
                   upfetched, uwritten, uinterrupted, pendingAtStop, loadedIds,
                   snap, stop_event>>
    /\ UNCHANGED <<bdump, download_media, uexisting, uharvest>>
    /\ UNCHANGED unwritable
    /\ UNCHANGED nonBackupVars

\* lines 416-430: the head of the page loop: the loop ends after the last
\* page or when the stop event is set; a page whose file exists is counted
DTPage(u) ==
    /\ upc[u] = "page"
    /\ IF upage[u] > unpages[u]
         THEN /\ upc' = [upc EXCEPT ![u] = "record"]
              /\ UNCHANGED <<uinterrupted, udownloaded, uprev, upage, uexisting,
                             uharvest>>
       ELSE IF StopSeenInLoop(stop_event)
         THEN /\ upc' = [upc EXCEPT ![u] = "record"]
              /\ uinterrupted' = [uinterrupted EXCEPT ![u] = TRUE]
              /\ UNCHANGED <<udownloaded, uprev, upage, uexisting, uharvest>>
       ELSE IF FileExists(files, u, upage[u])
         THEN /\ udownloaded' = [udownloaded EXCEPT ![u] = Counted(@)]
              /\ uprev' = [uprev EXCEPT ![u] = Size(files[<<u, upage[u]>>])]
              /\ uexisting' = [uexisting EXCEPT ![u] = @ \cup {upage[u]}]
              /\ uharvest' = [uharvest EXCEPT
                                ![u] = IF download_media /\ Size(files[<<u, upage[u]>>]) # 0
                                         THEN @ \cup {<<upage[u], "stored">>} ELSE @]
              /\ upage' = [upage EXCEPT ![u] = NextPage(@)]
              /\ UNCHANGED <<upc, uinterrupted>>
       ELSE /\ upc' = [upc EXCEPT ![u] = "fetch"]
            /\ UNCHANGED <<uinterrupted, udownloaded, uprev, upage, uexisting,
                           uharvest>>
    /\ UNCHANGED <<src, listing, metadataFile, metadata, files, run, bpc, threads,
                   todo, collected, completed, successful, bret, progress, uattempt,
                   uresult, unpages, ufetch1, upfetched, uwritten, pendingAtStop,
                   loadedIds, snap, stop_event>>
    /\ UNCHANGED <<utrace, bdump, download_media>>
    /\ UNCHANGED unwritable
    /\ UNCHANGED nonBackupVars

\* lines 255-256 and 435: open(path, 'w') raises when the directory refuses it
OpensForWriting(kind, refused) == kind \notin refused

\* lines 431-443: the page is fetched; a failed fetch skips it; a body as long
\* as the previous page ends the loop; else the page is written and counted; a
\* write that raises is logged by the handler of line 442 and the loop goes on
DTFetch(u) ==
    /\ upc[u] = "fetch"
    /\ upfetched' = [upfetched EXCEPT ![u] = @ \cup {upage[u]}]
    /\ ufetch1' = [ufetch1 EXCEPT ![u] = IF upage[u] = 1 THEN @ + 1 ELSE @]
    /\ LET body == Served(src[u], upage[u]) IN
       IF ~PageFetched(src[u], upage[u])
         THEN /\ upage' = [upage EXCEPT ![u] = NextPage(@)]
              /\ upc' = [upc EXCEPT ![u] = "page"]
              /\ UNCHANGED <<files, udownloaded, uprev, uwritten, uharvest>>
       ELSE IF SameSizeAsPrevious(uprev[u], Size(body))
         THEN /\ upc' = [upc EXCEPT ![u] = "record"]
              /\ UNCHANGED <<files, udownloaded, uprev, uwritten, upage, uharvest>>
       ELSE IF ~OpensForWriting("page", unwritable)
         THEN /\ upage' = [upage EXCEPT ![u] = NextPage(@)]
              /\ upc' = [upc EXCEPT ![u] = "page"]
              /\ UNCHANGED <<files, udownloaded, uprev, uwritten, uharvest>>
       ELSE /\ files' = (<<u, upage[u]>> :> body) @@ files
            /\ uharvest' = [uharvest EXCEPT
                              ![u] = IF download_media
                                       THEN @ \cup {<<upage[u], "fetched">>} ELSE @]
            /\ uwritten' = [uwritten EXCEPT ![u] = @ \cup {upage[u]}]
            /\ udownloaded' = [udownloaded EXCEPT ![u] = Counted(@)]
            /\ uprev' = [uprev EXCEPT ![u] = Size(body)]
            /\ upage' = [upage EXCEPT ![u] = NextPage(@)]
            /\ upc' = [upc EXCEPT ![u] = "page"]
    /\ UNCHANGED <<src, listing, metadataFile, metadata, run, bpc, threads, todo,
                   collected, completed, successful, bret, progress, uattempt,
                   uresult, unpages, uinterrupted, pendingAtStop, loadedIds, snap,
                   stop_event>>
    /\ UNCHANGED <<utrace, bdump, download_media, uexisting>>
    /\ UNCHANGED unwritable
    /\ UNCHANGED nonBackupVars

\* lines 447-451: the ThreadRecord is put into self.metadata and download_thread
\* returns True
DTRecord(u) ==
    /\ upc[u] = "record"
    /\ metadata' = [metadata EXCEPT
                      !.threads = (u :> ThreadRecord(UnitOf(u), udownloaded[u], run)) @@ @]
    /\ upc' = [upc EXCEPT ![u] = "finished"]
    /\ uresult' = [uresult EXCEPT ![u] = TRUE]
    /\ UNCHANGED <<src, listing, metadataFile, files, run, bpc, threads, todo,
                   collected, completed, successful, bret, progress, uattempt,
                   unpages, upage, udownloaded, uprev, ufetch1, upfetched, uwritten,
                   uinterrupted, pendingAtStop, loadedIds, snap, stop_event>>
    /\ utrace' = [utrace EXCEPT ![u] = Append(@, "True")]
    /\ UNCHANGED <<bdump, download_media, uexisting, uharvest>>
    /\ UNCHANGED unwritable
    /\ UNCHANGED nonBackupVars

\* lines 478-492: what the collecting loop does after a unit's result, True or
\* False: it goes on to the next future while one is left
AfterResultStopsOnFailure(result, all) == IF all \/ ~result THEN "exit" ELSE "collect"
AfterResult(result, all) == IF all THEN "exit" ELSE "collect"

\* lines 478-486: as_completed yields a finished future; the loop breaks when
\* the stop event is set; else the unit is counted; a failure is reported to
\* the progress callback; a success is counted and save_metadata begins: it
\* sets last_backup and opens the metadata file for writing; when the open
\* raises, the handler of line 490 logs it and the loop goes on
BCollect(u) ==
    /\ bpc = "collect"
    /\ upc[u] = "finished"
    /\ u \notin collected
    /\ IF stop_event
         THEN /\ bpc' = "exit"
              /\ UNCHANGED <<collected, completed, successful, metadata,
                             metadataFile, progress, bdump>>
         ELSE /\ collected' = collected \cup {u}
              /\ completed' = completed + 1
              /\ IF uresult[u]
                   THEN /\ successful' = successful + 1
                        /\ metadata' = Stamp([metadata EXCEPT
                                                !.completed_threads = successful'], run)
                        /\ IF OpensForWriting("metadata", unwritable)
                             THEN /\ metadataFile' = Corrupt
                                  /\ bdump' = <<metadata'>>
                                  /\ bpc' = "dump"
                             ELSE /\ bpc' = AfterResult(TRUE, collected' = Ids(todo))
                                  /\ UNCHANGED <<metadataFile, bdump>>
                        /\ UNCHANGED progress
                   ELSE /\ progress' = Append(progress, <<completed', Len(todo)>>)
                        /\ bpc' = AfterResult(FALSE, collected' = Ids(todo))
                        /\ UNCHANGED <<successful, metadata, metadataFile, bdump>>
    /\ UNCHANGED <<src, listing, files, run, threads, todo, bret, upc, uattempt,
                   uresult, unpages, upage, udownloaded, uprev, ufetch1, upfetched,
                   uwritten, uinterrupted, pendingAtStop, loadedIds, snap, stop_event>>
    /\ UNCHANGED <<utrace, download_media, uexisting, uharvest>>
    /\ UNCHANGED unwritable
    /\ UNCHANGED nonBackupVars

\* lines 255-257 and 487-492: json.dump ends; when it raised, line 490 logs the
\* error and the progress callback is not reached; else progress is reported
BDumped ==
    /\ bpc = "dump"
    /\ \E out \in DumpOutcomes(bdump[1], metadata) :
         /\ metadataFile' = out
         /\ progress' = IF out = Corrupt THEN progress
                        ELSE Append(progress, <<completed, Len(todo)>>)
    /\ bdump' = <<>>
    /\ bpc' = AfterResult(TRUE, collected = Ids(todo))
    /\ UNCHANGED <<src, listing, metadata, files, run, threads, todo, collected,
                   completed, successful, bret, upc, uattempt, uresult, unpages,
                   upage, udownloaded, uprev, ufetch1, upfetched, uwritten,
                   uinterrupted, pendingAtStop, loadedIds, snap, stop_event>>
    /\ UNCHANGED <<utrace, download_media, uexisting, uharvest>>
    /\ UNCHANGED unwritable
    /\ UNCHANGED nonBackupVars

\* lines 476 (leaving the with block waits for every future) and 494-496; the
\* save of line 495 is in no try block: when its open raises, run_backup ends
\* with the exception and returns nothing
BFinish ==
    /\ bpc = "exit"
    /\ \A u \in Ids(todo) : upc[u] = "finished"
    /\ metadata' = Stamp(metadata, run)
    /\ IF OpensForWriting("metadata", unwritable)
         THEN /\ metadataFile' = Stored(metadata')
              /\ bret' = successful
              /\ bpc' = "done"
         ELSE /\ bpc' = "raised"
              /\ UNCHANGED <<metadataFile, bret>>
    /\ UNCHANGED <<src, listing, files, run, threads, todo, collected, completed,
                   successful, progress, upc, uattempt, uresult, unpages, upage,
                   udownloaded, uprev, ufetch1, upfetched, uwritten, uinterrupted,
                   pendingAtStop, loadedIds, snap, stop_event>>
    /\ UNCHANGED <<utrace, bdump, download_media, uexisting, uharvest>>
    /\ UNCHANGED unwritable
    /\ UNCHANGED nonBackupVars

\* the shell clears the stop event and starts the next run on the same output
\* directory and forum, with a new instance
BNextRun ==
    /\ bpc = "done"
    /\ run < MaxRuns
    /\ snap' = [taken |-> TRUE, files |-> files, metadataFile |-> metadataFile,
                 threads |-> threads, stopped |-> stop_event, failed |-> FailedUnits]
    /\ run' = run + 1
    /\ stop_event' = FALSE
    /\ metadata' = DefaultMetadata
    /\ bpc' = "new"
    /\ threads' = <<>>
    /\ todo' = <<>>
    /\ collected' = {}
    /\ completed' = 0
    /\ successful' = 0
    /\ bret' = -1
    /\ progress' = <<>>
    /\ upc' = [u \in UnitIds |-> "none"]
    /\ uattempt' = [u \in UnitIds |-> 1]
    /\ uresult' = [u \in UnitIds |-> FALSE]
    /\ unpages' = [u \in UnitIds |-> 0]
    /\ upage' = [u \in UnitIds |-> 0]
    /\ udownloaded' = [u \in UnitIds |-> 0]
    /\ uprev' = [u \in UnitIds |-> -1]
    /\ ufetch1' = [u \in UnitIds |-> 0]
    /\ upfetched' = [u \in UnitIds |-> {}]
    /\ uwritten' = [u \in UnitIds |-> {}]
    /\ uinterrupted' = [u \in UnitIds |-> FALSE]
    /\ pendingAtStop' = {}
    /\ loadedIds' = {}
    /\ UNCHANGED <<src, listing, metadataFile, files>>
    /\ utrace' = [u \in UnitIds |-> <<>>]
    /\ UNCHANGED <<bdump, download_media>>
    /\ uexisting' = [u \in UnitIds |-> {}]
    /\ uharvest' = [u \in UnitIds |-> {}]
    /\ UNCHANGED unwritable
    /\ UNCHANGED nonBackupVars

BackupUnit ==
    \E u \in UnitIds :
        \/ DTStart(u) \/ DTPrimary(u) \/ DTPage(u) \/ DTFetch(u) \/ DTRecord(u)
        \/ BCollect(u)

NextBackup ==
    \/ BNew \/ BDiscover \/ BackupUnit \/ BDumped \/ BFinish \/ BNextRun
    \/ BackupCancel

\* ---- the forums served ----
BodyA == Content(1, "a")
BodyB == Content(2, "a")
BodyC == Content(2, "b")

Bodies == {BodyA, BodyB, BodyC}

\* the kinds of unit of the multi-unit runs: two pages and a pager that shows
\* three; one page and a pager that shows three; always down; first fetch of a
\* run fails; second page down
SourceKinds ==
    <<Source("ok", <<BodyA, BodyB>>, {2, 3}, {}),
      Source("ok", <<BodyB>>, {3}, {}),
      Source("down", <<BodyA>>, {}, {}),
      Source("flaky", <<BodyC>>, {}, {}),
      Source("ok", <<BodyA, BodyB, BodyA>>, {2, 3}, {2})>>

\* forum k gives unit u the kind number u + k (cyclically)
Forum(k) == [u \in UnitIds |-> SourceKinds[((u + k) % Len(SourceKinds)) + 1]]

Forums == {Forum(k) : k \in 1..Len(SourceKinds)}

\* the listing links every unit, unit 1 a second time under another text
UnitLink(id, title) ==
    [id |-> id, url |-> [shape |-> "showthread.php", t |-> id], title |-> title]

FullListing == [i \in 1..NumUnits |-> UnitLink(i, "thread")] \o <<UnitLink(1, "thread (again)")>>

BackupInit ==
    /\ src \in Forums
    /\ listing = FullListing
    /\ metadataFile \in {Absent, Corrupt}
    /\ files = <<>>
    /\ download_media = FALSE
    /\ unwritable = {}
    /\ BackupFresh

(***************************************************************************)
(* Properties of run_backup and download_thread.                            *)
(***************************************************************************)
PersistedPages(u) == {p \in 1..(MaxPages + 2) : <<u, p>> \in DOMAIN files}

\* C6: resumability.  A discovered unit whose id is in the metadata loaded at
\* startup is never downloaded: no fetch, no page write, never given to the
\* pool; and the units submitted to the pool are exactly the discovered units
\* whose id is absent from the loaded metadata, each once.
C6_LoadedUnitsSkipped ==
    /\ \A u \in loadedIds :
         /\ ufetch1[u] = 0 /\ upfetched[u] = {} /\ uwritten[u] = {}
         /\ upc[u] = "none"
    /\ (bpc \in {"collect", "exit", "done"} /\ threads # <<>>) =>
         /\ Ids(todo) = Ids(threads) \ loadedIds
         /\ Len(todo) = Cardinality(Ids(todo))
         /\ \A u \in Ids(todo) : upc[u] # "none"

\* a second run that loaded a record of the first and downloaded another unit
C6_Witness ==
    /\ run = 2 /\ bpc = "done"
    /\ loadedIds # {}
    /\ \E u \in Ids(threads) \ loadedIds : uwritten[u] # {} /\ uresult[u]

\* the metadata files are equal but for last_backup
SameButLastBackup(f, g) ==
    /\ f.state = g.state
    /\ f.state = "ok" => Stamp(f.data, 0) = Stamp(g.data, 0)

\* two runs in a row that were not cancelled and met the same listing
UnchangedRerun ==
    /\ run >= 2 /\ bpc = "done"
    /\ snap.taken /\ ~snap.stopped /\ ~stop_event
    /\ threads = snap.threads

\* C7: idempotence.  When run_backup has run twice on an unchanged source
\* (same listing, same pages, same fetch outcomes; neither run cancelled),
\* every page file is as it was after the first run, and the metadata file is
\* equal to the one after the first run except for last_backup.
C7_SecondRunChangesNothing ==
    UnchangedRerun =>
        /\ files = snap.files
        /\ SameButLastBackup(metadataFile, snap.metadataFile)

\* the second run retried a unit that had failed, next to a recorded one
C7_Witness ==
    /\ UnchangedRerun
    /\ run = 2
    /\ files # <<>>
    /\ metadataFile.state = "ok"
    /\ DOMAIN metadataFile.data.threads # {}
    /\ metadataFile.data.last_backup = 2
    /\ \E u \in Ids(threads) : ufetch1[u] > 0

\* pages 1..n of u are discovered and fetched, page n+1 is fetched and is
\* byte-identical to page n, and n is the first such page
StopsAfter(u, n) ==
    /\ n + 1 <= GetThreadPages(src[u].pager)
    /\ \A k \in 1..(n + 1) : PageFetched(src[u], k)
    /\ Served(src[u], n + 1) = Served(src[u], n)
    /\ \A k \in 1..(n - 1) : Served(src[u], k + 1) # Served(src[u], k)

\* no two consecutive pages among 1..n have the same byte length
LengthsDiffer(u, n) ==
    \A k \in 1..(n - 1) : Size(Served(src[u], k + 1)) # Size(Served(src[u], k))

\* download_thread ran its page loop for u to the end, and returned
RanToTheEnd(u) ==
    /\ upc[u] = "finished" /\ uresult[u] /\ ~uinterrupted[u]
    /\ u \in DOMAIN metadata.threads

\* pages 1..n are persisted as served and nothing after them, no page after
\* n+1 was fetched, and the record says pages = n
StoppedAt(u, n) ==
    /\ PersistedPages(u) = 1..n
    /\ \A p \in 1..n : files[<<u, p>>] = Served(src[u], p)
    /\ upfetched[u] \subseteq 1..(n + 1)
    /\ metadata.threads[u].pages = n

\* C8 as stated: pagination-stop.  For a unit whose pages 1..N are fetched and
\* whose page N+1 is byte-identical to page N, download_thread persists pages
\* 1..N and no later page, fetches no page after N+1 and records pages = N.
C8_PaginationStop ==
    \A u \in UnitIds : \A n \in 1..MaxPages :
        (RanToTheEnd(u) /\ StopsAfter(u, n)) => StoppedAt(u, n)

\* C8 amended: the same, for a unit no two consecutive pages of which, among
\* 1..N, have the same byte length (the rule compares lengths, not bytes).
C8_PaginationStopByLength ==
    \A u \in UnitIds : \A n \in 1..MaxPages :
        (RanToTheEnd(u) /\ StopsAfter(u, n) /\ LengthsDiffer(u, n)) => StoppedAt(u, n)

\* a unit of two or more pages that was cut off at its repeated last page
C8_Witness ==
    \E u \in UnitIds : \E n \in 2..MaxPages :
        /\ RanToTheEnd(u) /\ StopsAfter(u, n) /\ LengthsDiffer(u, n)
        /\ n + 1 \in upfetched[u]
        /\ PersistedPages(u) = 1..n

\* C9: cancellation stops new unit starts.  Once the stop event is set, a unit
\* whose download had not yet started performs no fetch and writes no page
\* file: download_thread returns False at once, on the first attempt and on the
\* retry, so the unit ends as failed.
C9_PendingUnitsDoNothing ==
    \A u \in pendingAtStop :
        /\ ufetch1[u] = 0 /\ upfetched[u] = {} /\ uwritten[u] = {}
        /\ upc[u] \in {"none", "queued", "retry", "finished"}
        /\ upc[u] = "finished" => (~uresult[u] /\ uattempt[u] = 2)
        /\ u \notin DOMAIN metadata.threads \/ u \in loadedIds

\* a unit still queued at the cancellation has failed both attempts
C9_Witness ==
    /\ stop_event
    /\ \E u \in pendingAtStop :
         upc[u] = "finished" /\ uattempt[u] = 2 /\ ~uresult[u]
    /\ bpc = "done"

\* what download_single may do for one unit
AllowedTraces ==
    {<<"call", "True">>,
     <<"call", "False", "sleep", "call", "True">>,
     <<"call", "False", "sleep", "call", "False">>}

IsPrefix(a, b) == Len(a) <= Len(b) /\ a = SubSeq(b, 1, Len(a))

Calls(trace) == Cardinality({i \in DOMAIN trace : trace[i] = "call"})

DoneUnits == {u \in UnitIds : upc[u] = "finished" /\ uresult[u]}

\* C12: run_backup returns the number of units that ended Done in this run,
\* also in a run during which the stop event was set.
C12_ReturnsDoneCount ==
    bpc = "done" => bret = Cardinality(DoneUnits)

\* C13: progress reporting.  In a run that is not cancelled the progress
\* callback is invoked once per submitted unit, succeeded or failed, with
\* completed = 1, 2, ..., total in that order and total the number of units
\* submitted.
C13_ProgressOncePerUnit ==
    (bpc = "done" /\ ~stop_event /\ threads # <<>>) =>
        progress = [i \in 1..Len(todo) |-> <<i, Len(todo)>>]

\* C18: access to the archive metadata is serialized: while save_metadata is
\* dumping self.metadata to the metadata file, no worker thread puts a
\* ThreadRecord into it.  (The file itself is written by the thread of
\* run_backup only.)
C18_NoRecordDuringDump ==
    [][bpc = "dump" => metadata'.threads = metadata.threads]_vars

\* a step keeps the page order of unit u: the loop goes to the next page only,
\* the page fetched or written is the page the loop is at, and it comes after
\* every page of the unit fetched or written before
InPageOrder(u) ==
    /\ run' = run => upage'[u] \in {upage[u], upage[u] + 1}
    /\ \A p \in upfetched'[u] \ upfetched[u] :
         p = upage[u] /\ \A q \in upfetched[u] \cup uwritten[u] : q < p
    /\ \A p \in uwritten'[u] \ uwritten[u] :
         p = upage[u] /\ p \in upfetched'[u] /\ \A q \in uwritten[u] : q < p

\* C19: within one unit the pages are fetched and written strictly in
\* increasing page order: page k+1 is not fetched or written before the
\* processing of page k has ended, whatever the scheduling of the pool.
C19_PagesInOrder == [][\A u \in UnitIds : InPageOrder(u)]_vars

\* two units of several pages downloaded side by side
C19_Witness ==
    \E u, v \in UnitIds :
        /\ u # v
        /\ upc[u] = "record" /\ upc[v] = "record"
        /\ upfetched[u] = {1, 2, 3} /\ uwritten[u] = {1, 2}
        /\ upfetched[v] = {1, 2} /\ uwritten[v] = {1}

\* page p of unit u, whose file the page loop found on disk, was counted, was
\* not fetched by the loop, its file is as it was when the run began, and a
\* stored copy that is not empty was handed to the media store when media
\* download is on
ExistingPageKept(u, p) ==
    /\ udownloaded[u] >= Cardinality(uexisting[u])
    /\ upc[u] \in {"page", "fetch", "record"} =>
          udownloaded[u] = Cardinality(uexisting[u] \cup uwritten[u])
    /\ p \notin upfetched[u]
    /\ p \notin uwritten[u]
    /\ files[<<u, p>>] = snap.files[<<u, p>>]
    /\ (download_media /\ Size(files[<<u, p>>]) # 0) <=> <<p, "stored">> \in uharvest[u]
    /\ <<p, "fetched">> \notin uharvest[u]

\* C20 as stated: for a page whose output file already exists, download_thread
\* counts the page as downloaded, does not fetch its URL, leaves the file
\* unchanged, and harvests media from the stored copy if media download is on.
C20_ExistingPageNotFetched ==
    \A u \in UnitIds : \A p \in uexisting[u] :
        /\ ExistingPageKept(u, p)
        /\ p = 1 => ufetch1[u] = 0
        /\ download_media => <<p, "stored">> \in uharvest[u]

\* C20 amended: the same, except that the URL of page 1, which is the unit's
\* URL, has been fetched before the loop to discover the pages (the loop does
\* not fetch it again), and that an empty stored copy is not harvested.
C20_ExistingPageNotFetchedByLoop ==
    \A u \in UnitIds : \A p \in uexisting[u] :
        /\ ExistingPageKept(u, p)
        /\ p = 1 => ufetch1[u] = Calls(utrace[u])

\* a unit whose pages 1 and 3 were on disk and whose page 2 was downloaded,
\* with media download on
C20_Witness ==
    \E u \in UnitIds :
        /\ upc[u] = "finished" /\ uresult[u]
        /\ download_media
        /\ uexisting[u] = {1, 3}
        /\ uwritten[u] = {2}
        /\ uharvest[u] = {<<1, "stored">>, <<2, "fetched">>, <<3, "stored">>}
        /\ udownloaded[u] = 3

\* C10: after a run during which the stop event was set, the metadata file
\* holds a ThreadRecord of this run only for units that reached Done; a unit
\* whose page loop was interrupted by the stop event is not recorded.
C10_InterruptedUnitNotRecorded ==
    (bpc = "done" /\ stop_event /\ metadataFile.state = "ok") =>
        \A u \in UnitIds :
            uinterrupted[u] => u \notin DOMAIN metadataFile.data.threads

\* the metadata file holds a ThreadRecord of unit u
Persisted(file, u) == file.state = "ok" /\ u \in DOMAIN file.data.threads

\* C34: a unit whose primary URL could not be fetched, at the first call and
\* at the retry, ended the run failed and has no ThreadRecord in the metadata
\* file after the run; the next run on the same listing selects it again.
C34_FailedUnitSelectedAgain ==
    /\ bpc = "done" =>
          \A u \in FailedUnits :
              /\ ~uresult[u]
              /\ ufetch1[u] = 2 \/ stop_event
              /\ ~Persisted(metadataFile, u)
    /\ (snap.taken /\ bpc \notin {"new", "discover"}) =>
          \A u \in snap.failed \cap Ids(threads) : u \in Ids(todo)

\* the second run downloads a unit again that failed in the first run, beside
\* a unit the first run recorded
C34_Witness ==
    /\ snap.taken
    /\ ~snap.stopped
    /\ ~stop_event
    /\ bpc = "done"
    /\ Persisted(snap.metadataFile, 1) \/ Persisted(snap.metadataFile, 2)
    /\ \E u \in snap.failed : u \in Ids(todo) /\ u \in FailedUnits /\ ufetch1[u] = 2

\* the page files of u that a record of n pages would describe
RecordedPrefix(u, n) == \A p \in 1..n : FileExists(files, u, p)

\* C38 as stated: whenever a ThreadRecord with pages = N is recorded for a unit,
\* the page files 1..N of that unit all exist on disk, also when the fetch of
\* some sub-page failed.
C38_RecordedPagesArePrefix ==
    \A u \in DOMAIN metadata.threads : RecordedPrefix(u, metadata.threads[u].pages)

\* every page of the unit was fetched: then the record describes a prefix
C38_PrefixWhenAllFetched ==
    \A u \in DOMAIN metadata.threads :
        (\A p \in 1..GetThreadPages(src[u].pager) : PageFetched(src[u], p))
            => RecordedPrefix(u, metadata.threads[u].pages)

\* C25 as stated: a write failure of a page file or of the metadata file during
\* run_backup never propagates out of run_backup: the run goes through the
\* remaining units and returns its count.
C25_WriteFailuresContained ==
    /\ bpc # "raised"
    /\ (bpc \in {"exit", "done"} /\ ~stop_event /\ threads # <<>>) => collected = Ids(todo)
    /\ (bpc = "done" /\ threads # <<>>) => bret = successful

\* the part of C25 the code keeps: the failures inside the page loop and inside
\* the collecting loop are contained
ContainedInTheLoops ==
    (bpc \in {"exit", "done", "raised"} /\ ~stop_event /\ threads # <<>>)
        => /\ collected = Ids(todo)
           /\ successful = Cardinality({u \in collected : uresult[u]})

\* a run that discovered no unit
ZeroUnitRun == bpc = "done" /\ threads = <<>>

\* C26: when discovery finds no unit, run_backup returns 0, no unit download
\* has started, the metadata is as loaded and the metadata file is never
\* written; a unit that fails, by contrast, does not end the run: a run that
\* is not cancelled collects every submitted unit and ends with the final
\* metadata save.
C26_ZeroUnitsVersusUnitFailures ==
    /\ [](ZeroUnitRun =>
            /\ bret = 0
            /\ \A u \in UnitIds : upc[u] = "none" /\ utrace[u] = <<>> /\ upfetched[u] = {}
            /\ metadata = LoadMetadata(metadataFile))
    /\ [][(metadataFile' # metadataFile \/ files' # files) => threads' # <<>>]_vars
    /\ []((bpc \in {"exit", "done"} /\ ~stop_event /\ threads # <<>>)
            => collected = Ids(todo))
    /\ []((bpc = "done" /\ threads # <<>>) =>
            /\ metadataFile = Stored(metadata)
            /\ bret = successful)

\* a first run in which a unit failed and another succeeded went on to its
\* final save, and the second run, which discovered nothing, left the file alone
C26_Witness ==
    /\ ZeroUnitRun
    /\ ~stop_event
    /\ snap.taken
    /\ ~snap.stopped
    /\ snap.metadataFile = metadataFile
    /\ metadataFile.state = "ok"
    /\ DOMAIN metadataFile.data.threads # {}
    /\ DOMAIN metadataFile.data.threads # Ids(snap.threads)

(***************************************************************************)
(* One streaming fetch.  get_page and MediaDownloader._fetch_bytes request  *)
(* the URL with stream=True and collect the chunks of iter_content.         *)
(***************************************************************************)
FetchInit ==
    /\ fkind \in {"page", "media"}
    /\ fbody \in 0..MaxChunks
    /\ fpc = "request"
    /\ fgot = 0
    /\ fret = <<>>
    /\ fstopAt = <<>>

\* the content returned: the chunks joined
Joined(n) == [kind |-> "body", chunks |-> n]

\* lines 131-132: _fetch_bytes tests the stop event before it appends a
\* chunk; the loop of get_page (lines 267-268) has no such test
ChecksStop(kind) == kind = "media"

\* the shell sets the stop event while the fetch is under way
FetchCancel ==
    /\ fpc # "done"
    /\ ~stop_event
    /\ stop_event' = TRUE
    /\ fstopAt' = <<fgot>>
    /\ UNCHANGED <<fkind, fbody, fpc, fgot, fret>>
    /\ UNCHANGED nonFetchVars

\* requests.get / session.get and raise_for_status: the response, or an
\* exception, which the handler turns into None
FRequest ==
    /\ fpc = "request"
    /\ \E ok \in BOOLEAN :
         IF ok THEN fpc' = "loop" /\ fret' = fret
         ELSE fpc' = "done" /\ fret' = <<None>>
    /\ UNCHANGED <<fkind, fbody, fgot, fstopAt, stop_event>>
    /\ UNCHANGED nonFetchVars

\* the head of the loop over iter_content: the body is returned when the
\* chunks are used up; _fetch_bytes returns None when the stop event is set
FNext ==
    /\ fpc = "loop"
    /\ IF fgot = fbody THEN fpc' = "done" /\ fret' = <<Joined(fgot)>>
       ELSE IF ChecksStop(fkind) /\ stop_event THEN fpc' = "done" /\ fret' = <<None>>
       ELSE fpc' = "append" /\ fret' = fret
    /\ UNCHANGED <<fkind, fbody, fgot, fstopAt, stop_event>>
    /\ UNCHANGED nonFetchVars

\* chunks.append(chunk) / content += chunk
FAppend ==
    /\ fpc = "append"
    /\ fgot' = fgot + 1
    /\ fpc' = "loop"
    /\ UNCHANGED <<fkind, fbody, fret, fstopAt, stop_event>>
    /\ UNCHANGED nonFetchVars

NextFetch == FRequest \/ FNext \/ FAppend \/ FetchCancel

\* C24: once the stop event is set during a fetch, the fetch appends no
\* further chunk (at most the one it had already taken from the stream) and,
\* if chunks were still to come, returns None instead of the body.
C24_StreamStopsOnCancel ==
    fstopAt # <<>> =>
        /\ fgot <= fstopAt[1] + 1
        /\ (fpc = "done" /\ fstopAt[1] + 1 < fbody) => fret = <<None>>

(***************************************************************************)
(* Content extraction.  convert_html_folder reads the saved pages of a      *)
(* folder with extract_posts_html and writes the archive document with      *)
(* build_html_output; _parse_single_html reads one document back, a saved   *)
(* page or an archive.  A document is the sequence of the tags and texts of *)
(* its markup; BeautifulSoup nests them by matching each end tag with the   *)
(* innermost open element.                                                  *)
(***************************************************************************)
\* one piece of markup: a start tag with its classes, an end tag, a text.
\* val is the text of a text, span or title element, the src of an img, the
\* href of an a, and the date of the caption of a message block, whose
\* author is aux
Tag(name, cls, val, aux) == [name |-> name, cls |-> cls, val |-> val, aux |-> aux]

Div(cls) == Tag("div", cls, "", "")

EndDiv == Tag("/div", {}, "", "")

Text(s) == Tag("text", {}, s, "")

Span(cls, s) == Tag("span", {cls}, s, "")

ImgTag(url) == Tag("img", {}, url, "")

RECURSIVE Concat(_)
Concat(ss) == IF ss = <<>> THEN <<>> ELSE Head(ss) \o Concat(Tail(ss))

\* a title that holds a start tag once the entities of the saved page are decoded
TitleWithTag == "how to center a <div>"

\* the markup a string is when it is written into a document as it is
Written(s) == IF s = TitleWithTag THEN <<Text("how to center a "), Div({})>> ELSE <<Text(s)>>

\* the markup of a string whose &, < and > were replaced by entities
Escaped(s) == <<Text(s)>>

\* URLs of images: one the media store holds, one it does not hold, and one
\* urlparse rejects with ValueError
StoredImage == "http://cdn/pic.png"

RemoteImage == "http://cdn/new.png"

BadUrl == "http://["

PageLink == "http://forum/rules"

PngDataUri == "data:image/png;base64,iVBORw0KGgo="

LocalSrc == "media/pic.png"

GetLocalPath(url) == IF url = StoredImage THEN LocalSrc ELSE ""

\* get_ext: urlparse raises on BadUrl; the other URLs and their extensions
GetExtRaises(url) == url = BadUrl

UrlExt(url) == IF url \in {StoredImage, RemoteImage} THEN "png" ELSE ""

\* _render_media_tag of an image: the data URI of the stored file when
\* embedding, else the relative local path, else the URL itself
RenderMediaTag(url, local, embed) ==
    ImgTag(IF embed /\ local # "" THEN PngDataUri
           ELSE IF local # "" THEN LocalSrc ELSE url)

\* parse_date: the timestamp of a date text, 0 for None
ParseDate(text) ==
    CASE text = "Jan 01, 2020 at 01:00 PM" -> 1
      [] text = "Jan 02, 2020 at 01:00 PM" -> 2
      [] OTHER -> 0

\* the sort key (date_obj is None, date_obj) of a is less than that of b
KeyLess(a, b) ==
    \/ a.date_obj # 0 /\ b.date_obj = 0
    \/ a.date_obj # 0 /\ b.date_obj # 0 /\ a.date_obj < b.date_obj

\* list.sort with that key: stable
RECURSIVE SortPosts(_)
SortPosts(posts) ==
    IF posts = <<>> THEN <<>>
    ELSE LET n == Len(posts)
             x == posts[n]
             rest == SortPosts(SubSeq(posts, 1, n - 1))
         IN SelectSeq(rest, LAMBDA y : ~KeyLess(x, y)) \o <<x>>
                \o SelectSeq(rest, LAMBDA y : KeyLess(x, y))

\* BeautifulSoup(raw, "html.parser"): for every piece of the document, the
\* elements open when it is read, outermost first
RECURSIVE Ancestors(_, _, _, _)
Ancestors(doc, i, open, acc) ==
    IF i > Len(doc) THEN acc
    ELSE LET t == doc[i]
             next == CASE t.name = "div" -> Append(open, i)
                       [] t.name = "/div" /\ open # <<>> -> SubSeq(open, 1, Len(open) - 1)
                       [] OTHER -> open
         IN Ancestors(doc, i + 1, next, Append(acc, open))

BeautifulSoup(doc) == Ancestors(doc, 1, <<>>, <<>>)

\* a document html.parser rejects
Rejected == <<Tag("decl", {}, "<![", "")>>

SoupRaises(doc) == \E i \in DOMAIN doc : doc[i].name = "decl"

\* find_all under the element at root (0: the whole document): the pieces of
\* that name (any name when "") and class, in document order
FindAll(doc, tree, root, name, cls) ==
    SelectSeq([j \in 1..Len(doc) |-> j],
              LAMBDA j : /\ root = 0 \/ root \in Range(tree[j])
                         /\ name = "" \/ doc[j].name = name
                         /\ doc[j].name # "/div"
                         /\ cls = "" \/ cls \in doc[j].cls)

\* find_next: the first div of the class after the piece at i, 0 for None
FindNext(doc, i, cls) ==
    LET later == SelectSeq([j \in 1..Len(doc) |-> j],
                           LAMBDA j : j > i /\ doc[j].name = "div" /\ cls \in doc[j].cls)
    IN IF later = <<>> THEN 0 ELSE later[1]

\* get_text of the element at root: its texts in document order
GetText(doc, tree, root) ==
    LET texts == SelectSeq([j \in 1..Len(doc) |-> j],
                           LAMBDA j : /\ root \in Range(tree[j])
                                      /\ doc[j].name \in {"text", "span"})
    IN [k \in DOMAIN texts |-> doc[texts[k]].val]

\* extract_posts_html: the title and the sorted posts of a saved page, or the
\* exception get_ext raises on the src of an image
ExtractPostsHtml(doc, embed) ==
    LET tree == BeautifulSoup(doc)
        titles == FindAll(doc, tree, 0, "title", "")
        blocks == FindAll(doc, tree, 0, "div", "message-userContent")
        Imgs(b) == LET message_div == FindNext(doc, b, "bbWrapper")
                   IN IF message_div = 0 THEN <<>>
                      ELSE FindAll(doc, tree, message_div, "img", "")
        \* media_dl is given exactly when the media is embedded
        Local(url) == IF embed THEN GetLocalPath(url) ELSE ""
        Shown(j) == Local(doc[j].val) # ""
                        \/ (embed /\ UrlExt(doc[j].val) \in MEDIA_EXTS)
        Post(b) == [date_obj |-> ParseDate(doc[b].val),
                    author |-> doc[b].aux,
                    date |-> doc[b].val,
                    body |-> LET message_div == FindNext(doc, b, "bbWrapper")
                             IN IF message_div = 0 THEN <<>>
                                ELSE GetText(doc, tree, message_div),
                    media |-> LET shown == SelectSeq(Imgs(b), Shown)
                              IN [k \in DOMAIN shown |->
                                     RenderMediaTag(doc[shown[k]].val,
                                                    Local(doc[shown[k]].val), embed)]]
    IN IF \/ SoupRaises(doc)
          \/ \E k \in DOMAIN blocks : \E m \in DOMAIN Imgs(blocks[k]) :
                LET url == doc[Imgs(blocks[k])[m]].val
                IN Local(url) = "" /\ embed /\ GetExtRaises(url)
       THEN [raised |-> TRUE, title |-> "", posts |-> <<>>]
       ELSE [raised |-> FALSE,
             title |-> IF titles = <<>> THEN "Untitled" ELSE doc[titles[1]].val,
             posts |-> SortPosts([k \in DOMAIN blocks |-> Post(blocks[k])])]

\* build_html_output: the block of one post
PostHtml(pi, post) ==
    <<Div(IF pi = 1 THEN {"post", "original"} ELSE {"post", "reply"}),
      Div({"post-meta"}), Span("post-badge", ""),
      Span("post-author", post.author), Span("post-date", post.date), EndDiv,
      Div({"post-body"})>> \o Concat([k \in DOMAIN post.body |-> Escaped(post.body[k])])
        \o <<EndDiv>>
        \o (IF post.media # <<>> THEN <<Div({"post-media"})>> \o post.media \o <<EndDiv>>
            ELSE <<>>)
        \o <<EndDiv>>

\* build_html_output: the block of one thread; the title is written as it is
ThreadBlockHtml(title, posts) ==
    <<Div({"thread-block"}), Div({"thread-header"}), Div({"thread-title"})>>
        \o Written(title)
        \o <<EndDiv, Span("thread-count", "posts"), EndDiv>>
        \o Concat([pi \in DOMAIN posts |-> PostHtml(pi, posts[pi])])
        \o <<EndDiv>>

\* build_html_output: the archive document.  Its table of contents repeats
\* the titles inside a elements and holds no div; it is left out, as are the
\* style, the script and the lightbox
BuildHtmlOutput(ts) ==
    <<Tag("title", {}, "Arcane Forum Archive", ""), Div({"container"})>>
        \o Concat([i \in DOMAIN ts |-> ThreadBlockHtml(ts[i].title, ts[i].posts)])
        \o <<EndDiv>>

\* the blocks a saved page is made of: the caption (date, author), an image
\* and a link of the body
Block(date, author, img, href) ==
    <<Tag("div", {"message-userContent"}, date, author), Div({"bbWrapper"}), Text("body")>>
        \o (IF img = "" THEN <<>> ELSE <<ImgTag(img)>>)
        \o (IF href = "" THEN <<>> ELSE <<Tag("a", {}, href, "")>>)
        \o <<EndDiv, EndDiv>>

BlockKinds ==
    {Block("Jan 01, 2020 at 01:00 PM", "ann", "", ""),
     Block("Jan 02, 2020 at 01:00 PM", "bob", StoredImage, PageLink),
     Block("yesterday", "cat", RemoteImage, ""),
     Block("Jan 01, 2020 at 01:00 PM", "dan", "", BadUrl),
     Block("Jan 02, 2020 at 01:00 PM", "eve", BadUrl, "")}

SavedPage(title, blocks) == <<Tag("title", {}, title, "")>> \o Concat(blocks)

SavedPages ==
    {SavedPage(title, blocks) :
        title \in {"news", TitleWithTag},
        blocks \in UNION {[1..n -> BlockKinds] : n \in 0..MaxPosts}}

\* the folder holds one saved page, or that page and a second one after it
SecondPage ==
    SavedPage("rules", <<Block("Jan 02, 2020 at 01:00 PM", "bob", StoredImage, ""),
                         Block("Jan 01, 2020 at 01:00 PM", "ann", "", "")>>)

Folders == {<<>>} \cup {<<p>> : p \in SavedPages} \cup {<<p, SecondPage>> : p \in SavedPages}

ExtractInit ==
    /\ folder \in Folders
    /\ embed_base64 \in BOOLEAN
    /\ cpc = "idle"
    /\ ci = 0
    /\ conv_threads = <<>>
    /\ output_file = <<>>
    /\ cret = 0
    /\ xpc = "idle"
    /\ xdoc = <<>>
    /\ soup = <<>>
    /\ arcane_threads = <<>>
    /\ xt = 0
    /\ post_divs = <<>>
    /\ xp = 0
    /\ thread_title = <<>>
    /\ posts_data = <<>>
    /\ parsed_threads = <<>>
    /\ csv_rows = <<>>
    /\ total_posts = 0
    /\ recovered = 0
    /\ xret = <<>>
    /\ xfailed = FALSE

\* the Stop button while a conversion or a restoration runs
ExtractCancel ==
    /\ cpc = "loop" \/ xpc \notin {"idle", "done"}
    /\ ~stop_event
    /\ stop_event' = TRUE
    /\ UNCHANGED <<extractVars, nonExtractVars>>

\* convert_html_folder, up to its loop
CStart ==
    /\ cpc = "idle"
    /\ stop_event' = FALSE
    /\ IF folder = <<>>
       THEN cpc' = "done" /\ cret' = 0
       ELSE cpc' = "loop" /\ cret' = cret
    /\ UNCHANGED <<folder, embed_base64, ci, conv_threads, output_file>>
    /\ UNCHANGED <<parseVars, nonExtractVars>>

\* one iteration of the loop over the files: a page that raises, or that
\* holds no post, adds no thread
CFile ==
    /\ cpc = "loop"
    /\ ci < Len(folder)
    /\ ~stop_event
    /\ LET r == ExtractPostsHtml(folder[ci + 1], embed_base64)
       IN conv_threads' = IF ~r.raised /\ r.posts # <<>>
                          THEN Append(conv_threads, [title |-> r.title, posts |-> r.posts])
                          ELSE conv_threads
    /\ ci' = ci + 1
    /\ UNCHANGED <<folder, embed_base64, cpc, output_file, cret, stop_event>>
    /\ UNCHANGED <<parseVars, nonExtractVars>>

\* after the loop: the archive document is built and written
CBuild ==
    /\ cpc = "loop"
    /\ ci = Len(folder) \/ stop_event
    /\ output_file' = BuildHtmlOutput(conv_threads)
    /\ cret' = Len(conv_threads)
    /\ cpc' = "done"
    /\ UNCHANGED <<folder, embed_base64, ci, conv_threads, stop_event>>
    /\ UNCHANGED <<parseVars, nonExtractVars>>

\* the documents the restoration can be pointed at
Documents ==
    Range(folder) \cup (IF output_file = <<>> THEN {} ELSE {output_file}) \cup {Rejected}

\* the result of a document nothing was extracted from
EmptyResult == [all_threads |-> <<>>, csv_rows |-> <<>>, total_posts |-> 0]

\* _parse_single_html, up to the parse: the file is read
XOpen ==
    /\ xpc = "idle"
    /\ cpc = "done"
    /\ stop_event' = FALSE
    /\ \E d \in Documents : xdoc' = d
    /\ xpc' = "soup"
    /\ UNCHANGED <<soup, arcane_threads, xt, post_divs, xp, thread_title, posts_data,
                   parsed_threads, csv_rows, total_posts, recovered, xret, xfailed>>
    /\ UNCHANGED <<convVars, nonExtractVars>>

\* the file cannot be opened: the empty result is returned
XOpenFails ==
    /\ xpc = "idle"
    /\ cpc = "done"
    /\ stop_event' = FALSE
    /\ xret' = <<EmptyResult>>
    /\ xpc' = "done"
    /\ UNCHANGED <<xdoc, soup, arcane_threads, xt, post_divs, xp, thread_title, posts_data,
                   parsed_threads, csv_rows, total_posts, recovered, xfailed>>
    /\ UNCHANGED <<convVars, nonExtractVars>>

\* the document is parsed and its format detected; a parser error goes to
\* the handler
XSoup ==
    /\ xpc = "soup"
    /\ IF SoupRaises(xdoc)
       THEN /\ xpc' = "except"
            /\ xfailed' = TRUE
            /\ UNCHANGED <<soup, arcane_threads, xt, thread_title, posts_data,
                           parsed_threads, total_posts>>
       ELSE LET s == BeautifulSoup(xdoc)
                blocks == FindAll(xdoc, s, 0, "div", "thread-block")
                titles == FindAll(xdoc, s, 0, "title", "")
            IN /\ soup' = s
               /\ xt' = 1
               /\ posts_data' = <<>>
               /\ IF blocks # <<>>
                  THEN /\ arcane_threads' = blocks
                       /\ xpc' = "thread"
                       /\ UNCHANGED thread_title
                  ELSE /\ arcane_threads' = FindAll(xdoc, s, 0, "div", "message-userContent")
                       /\ thread_title' = IF titles = <<>> THEN <<"Untitled Scroll">>
                                          ELSE <<xdoc[titles[1]].val>>
                       /\ xpc' = "raw"
               /\ UNCHANGED <<parsed_threads, total_posts, xfailed>>
    /\ UNCHANGED <<xdoc, post_divs, xp, csv_rows, recovered, xret, stop_event>>
    /\ UNCHANGED <<convVars, nonExtractVars>>

\* _extract_b64_media over the img elements found: a data URI is written to a
\* new file of recovered_media, any other src is kept as a URL
MediaRefs(doc, imgs, written) ==
    [k \in DOMAIN imgs |->
        IF doc[imgs[k]].val = PngDataUri
        THEN [type |-> "image", source |-> "base64", url |-> "",
              local_path |-> written + Cardinality({m \in 1..k : doc[imgs[m]].val = PngDataUri})]
        ELSE [type |-> "image", source |-> "url", url |-> doc[imgs[k]].val, local_path |-> 0]]

Materialised(doc, imgs) == Cardinality({k \in DOMAIN imgs : doc[imgs[k]].val = PngDataUri})

Row(title, post, t_idx) ==
    [thread_title |-> title, post_author |-> post.author, post_date |-> post.date,
     post_content_bbcode |-> post.bbcode, media_references |-> post.media, block |-> t_idx]

\* head of the loop over the thread blocks of an archive
XThread ==
    /\ xpc = "thread"
    /\ IF xt > Len(arcane_threads) \/ stop_event
       THEN /\ xpc' = "return"
            /\ UNCHANGED <<thread_title, post_divs, xp, posts_data>>
       ELSE LET t_block == arcane_threads[xt]
                title_el == FindAll(xdoc, soup, t_block, "", "thread-title")
            IN /\ thread_title' = IF title_el = <<>> THEN <<"Thread", "number">>
                                  ELSE GetText(xdoc, soup, title_el[1])
               /\ post_divs' = FindAll(xdoc, soup, t_block, "div", "post")
               /\ xp' = 1
               /\ posts_data' = <<>>
               /\ xpc' = "post"
    /\ UNCHANGED <<xdoc, soup, arcane_threads, xt, parsed_threads, csv_rows, total_posts,
                   recovered, xret, stop_event, xfailed>>
    /\ UNCHANGED <<convVars, nonExtractVars>>

\* one iteration of the loop over the posts of a thread block
XPost ==
    /\ xpc = "post"
    /\ IF xp > Len(post_divs) \/ stop_event
       THEN /\ xpc' = "thread_end"
            /\ UNCHANGED <<xp, posts_data, csv_rows, recovered>>
       ELSE LET post_div == post_divs[xp]
                First(cls, default) ==
                    LET els == FindAll(xdoc, soup, post_div, "", cls)
                    IN IF els = <<>> THEN default ELSE xdoc[els[1]].val
                body_el == FindAll(xdoc, soup, post_div, "", "post-body")
                media_container == FindAll(xdoc, soup, post_div, "", "post-media")
                imgs == IF body_el = <<>> \/ media_container = <<>> THEN <<>>
                        ELSE FindAll(xdoc, soup, media_container[1], "img", "")
                post == [index |-> xp,
                         author |-> First("post-author", "Unknown Scribe"),
                         date |-> First("post-date", "Date unknown"),
                         bbcode |-> IF body_el = <<>> THEN <<>>
                                    ELSE GetText(xdoc, soup, body_el[1]),
                         media |-> MediaRefs(xdoc, imgs, recovered),
                         is_original |-> "original" \in xdoc[post_div].cls]
            IN /\ posts_data' = Append(posts_data, post)
               /\ csv_rows' = Append(csv_rows, Row(thread_title, post, xt))
               /\ recovered' = recovered + Materialised(xdoc, imgs)
               /\ xp' = xp + 1
               /\ xpc' = "post"
    /\ UNCHANGED <<xdoc, soup, arcane_threads, xt, post_divs, thread_title,
                   parsed_threads, total_posts, xret, stop_event, xfailed>>
    /\ UNCHANGED <<convVars, nonExtractVars>>

ThreadRecordOf(title, posts) ==
    [thread_title |-> title, post_count |-> Len(posts), posts |-> posts]

\* after the loop over the posts: the thread record is appended
XThreadEnd ==
    /\ xpc = "thread_end"
    /\ parsed_threads' = Append(parsed_threads, ThreadRecordOf(thread_title, posts_data))
    /\ total_posts' = total_posts + Len(posts_data)
    /\ xt' = xt + 1
    /\ xpc' = "thread"
    /\ UNCHANGED <<xdoc, soup, arcane_threads, post_divs, xp, thread_title, posts_data,
                   csv_rows, recovered, xret, stop_event, xfailed>>
    /\ UNCHANGED <<convVars, nonExtractVars>>

\* one iteration of the loop over the message blocks of a saved page: get_ext
\* of a link of the body can raise, which leaves the loop for the handler
XBlock ==
    /\ xpc = "raw"
    /\ IF xt > Len(arcane_threads) \/ stop_event
       THEN /\ parsed_threads' = Append(parsed_threads, ThreadRecordOf(thread_title, posts_data))
            /\ total_posts' = total_posts + Len(posts_data)
            /\ xpc' = "return"
            /\ UNCHANGED <<xt, posts_data, csv_rows, recovered, xfailed>>
       ELSE LET block == arcane_threads[xt]
                message_div == FindNext(xdoc, block, "bbWrapper")
                imgs == IF message_div = 0 THEN <<>>
                        ELSE FindAll(xdoc, soup, message_div, "img", "")
                links == IF message_div = 0 THEN <<>>
                         ELSE FindAll(xdoc, soup, message_div, "a", "")
                files_linked == SelectSeq(links, LAMBDA j : UrlExt(xdoc[j].val) \in MEDIA_EXTS)
                post == [index |-> xt,
                         author |-> xdoc[block].aux,
                         date |-> xdoc[block].val,
                         bbcode |-> IF message_div = 0 THEN <<>>
                                    ELSE GetText(xdoc, soup, message_div),
                         media |-> MediaRefs(xdoc, imgs, recovered)
                                     \o [k \in DOMAIN files_linked |->
                                            [type |-> "file", source |-> "url",
                                             url |-> xdoc[files_linked[k]].val, local_path |-> 0]],
                         is_original |-> xt = 1]
            IN /\ recovered' = recovered + Materialised(xdoc, imgs)
               /\ IF \E k \in DOMAIN links : GetExtRaises(xdoc[links[k]].val)
                  THEN /\ xpc' = "except"
                       /\ xfailed' = TRUE
                       /\ UNCHANGED <<xt, posts_data, csv_rows>>
                  ELSE /\ xfailed' = xfailed
                       /\ posts_data' = Append(posts_data, post)
                       /\ csv_rows' = Append(csv_rows, Row(thread_title, post, 1))
                       /\ xt' = xt + 1
                       /\ xpc' = "raw"
               /\ UNCHANGED <<parsed_threads, total_posts>>
    /\ UNCHANGED <<xdoc, soup, arcane_threads, post_divs, xp, thread_title, xret, stop_event>>
    /\ UNCHANGED <<convVars, nonExtractVars>>

\* the return of _parse_single_html, reached after the loops and from the
\* handler of the parse errors alike: what has been collected is returned
XReturn ==
    /\ xpc \in {"return", "except"}
    /\ xret' = <<[all_threads |-> parsed_threads, csv_rows |-> csv_rows,
                  total_posts |-> total_posts]>>
    /\ xpc' = "done"
    /\ UNCHANGED <<xdoc, soup, arcane_threads, xt, post_divs, xp, thread_title, posts_data,
                   parsed_threads, csv_rows, total_posts, recovered, stop_event, xfailed>>
    /\ UNCHANGED <<convVars, nonExtractVars>>

ConvertHtmlFolder == CStart \/ CFile \/ CBuild

ParseSingleHtml == XOpen \/ XOpenFails \/ XSoup \/ XThread \/ XPost \/ XThreadEnd \/ XBlock \/ XReturn

NextExtract == ConvertHtmlFolder \/ ParseSingleHtml \/ ExtractCancel

\* C21: a failure while parsing a document yields the empty result for that
\* document: when _parse_single_html has returned after its handler of parse
\* errors was entered, it returned no thread record, no flat row and zero
\* posts.
C21_FailedDocumentYieldsNothing ==
    (xpc = "done" /\ xfailed) => xret = <<EmptyResult>>

\* the sum of the post_count values of the first n thread records
RECURSIVE PostCountSum(_, _)
PostCountSum(records, n) ==
    IF n = 0 THEN 0 ELSE records[n].post_count + PostCountSum(records, n - 1)

\* post_count is the length of posts in every thread record, total_posts is
\* the sum of the post_count values and there is one flat row for each post
Consistent(r) ==
    /\ \A i \in DOMAIN r.all_threads : r.all_threads[i].post_count = Len(r.all_threads[i].posts)
    /\ r.total_posts = PostCountSum(r.all_threads, Len(r.all_threads))
    /\ Len(r.csv_rows) = r.total_posts

\* C39 as stated: every result _parse_single_html returns is consistent, also
\* when the extraction was cancelled or failed part-way through a document.
C39_ResultConsistent == xret # <<>> => Consistent(xret[1])

\* the results of the extractions that did not fail, cancelled ones included
C39_ConsistentUnlessFailed == (xret # <<>> /\ ~xfailed) => Consistent(xret[1])

\* _parse_single_html has returned from the archive document the conversion
\* wrote, neither cancelled nor failed
ArchiveReadBack ==
    /\ xpc = "done"
    /\ output_file # <<>>
    /\ xdoc = output_file
    /\ ~stop_event
    /\ ~xfailed

Inlined(media) == Cardinality({m \in DOMAIN media : media[m].val = PngDataUri})

RecoveredRefs(media) ==
    Cardinality({m \in DOMAIN media :
                    media[m].source = "base64" /\ media[m].local_path \in 1..recovered})

\* C22: round trip.  For the archive document build_html_output made of the
\* k threads of the conversion, _parse_single_html returns k thread records
\* in the same order, thread i with post_count n_i, with exactly its first
\* post marked original and with n_i flat rows, and every inlined image of a
\* post is a media reference of that post to a file of recovered_media.
C22_RoundTrip ==
    ArchiveReadBack =>
        LET r == xret[1]
        IN /\ Len(r.all_threads) = Len(conv_threads)
           /\ \A i \in DOMAIN conv_threads :
                LET built == conv_threads[i].posts
                    read == r.all_threads[i]
                IN /\ read.post_count = Len(built)
                   /\ Len(read.posts) = Len(built)
                   /\ \A p \in DOMAIN built :
                        /\ read.posts[p].is_original <=> p = 1
                        /\ RecoveredRefs(read.posts[p].media) = Inlined(built[p].media)
                   /\ Cardinality({k \in DOMAIN r.csv_rows : r.csv_rows[k].block = i})
                        = Len(built)

\* the posts of a saved page in document order, by date text and author
DocumentPosts(doc) ==
    LET blocks == FindAll(doc, BeautifulSoup(doc), 0, "div", "message-userContent")
    IN [k \in DOMAIN blocks |-> [date |-> doc[blocks[k]].val, author |-> doc[blocks[k]].aux]]

\* the timestamp of a is earlier than that of b, an unparsable one being later
\* than every parsed one
Earlier(a, b) ==
    /\ ParseDate(a.date) # 0
    /\ ParseDate(b.date) = 0 \/ ParseDate(a.date) < ParseDate(b.date)

\* out holds the posts of the document, ascending by timestamp, the posts of
\* equal key in document order
OrderedByTimestamp(document, out) ==
    /\ Len(out) = Len(document)
    /\ \E perm \in [DOMAIN out -> DOMAIN document] :
         /\ \A k \in DOMAIN out :
              /\ out[k].date = document[perm[k]].date
              /\ out[k].author = document[perm[k]].author
         /\ \A i, j \in DOMAIN out :
              i < j => /\ perm[i] # perm[j]
                       /\ ~Earlier(document[perm[j]], document[perm[i]])
                       /\ ~Earlier(document[perm[i]], document[perm[j]])
                             => perm[i] < perm[j]

\* the pages convert_html_folder has gone through keep the order of C28
ConvertedInOrder ==
    \A i \in 1..ci :
        LET r == ExtractPostsHtml(folder[i], embed_base64)
        IN ~r.raised => OrderedByTimestamp(DocumentPosts(folder[i]), r.posts)

\* _parse_single_html has read a saved page to its end
RawPageRead ==
    /\ xpc = "done"
    /\ ~xfailed
    /\ ~stop_event
    /\ FindAll(xdoc, soup, 0, "div", "thread-block") = <<>>

\* C28 as stated: the posts of an extracted thread are ordered by parsed
\* timestamp ascending, the posts whose timestamp cannot be parsed after all
\* the others, and posts of equal key keep their document order; for the
\* threads of extract_posts_html and for those of _parse_single_html.
C28_PostsOrderedByTimestamp ==
    /\ ConvertedInOrder
    /\ RawPageRead =>
          \A t \in DOMAIN xret[1].all_threads :
              OrderedByTimestamp(DocumentPosts(xdoc), xret[1].all_threads[t].posts)

(***************************************************************************)
(* Markup conversion.  _html_to_bbcode walks an element of the soup and     *)
(* _clean_bbcode tidies the text.  A text is the sequence of its pieces: a  *)
(* character of a text node, or a token the converter writes.               *)
(***************************************************************************)
NL == "\n"

TextNode(t) == [name |-> "#text", val |-> "", children |-> <<>>, text |-> t]

Element(name, val, children) == [name |-> name, val |-> val, children |-> children, text |-> <<>>]

Whitespace(c) == c \in {" ", NL}

RECURSIVE StripLeft(_)
StripLeft(t) ==
    IF t = <<>> THEN <<>>
    ELSE IF Whitespace(Head(t)) THEN StripLeft(Tail(t)) ELSE t

RECURSIVE StripRight(_)
StripRight(t) ==
    IF t = <<>> THEN <<>>
    ELSE IF Whitespace(t[Len(t)]) THEN StripRight(SubSeq(t, 1, Len(t) - 1)) ELSE t

\* str.strip()
Strip(t) == StripRight(StripLeft(t))

\* lines 1004-1044: the conversion of an element
RECURSIVE HtmlToBbcode(_)
HtmlToBbcode(el) ==
    IF el.name = "#text" THEN el.text
    ELSE
    LET tag == el.name
        inner == Concat([k \in DOMAIN el.children |-> HtmlToBbcode(el.children[k])])
    IN CASE tag \in {"b", "strong"} -> <<"[B]">> \o inner \o <<"[/B]">>
         [] tag \in {"i", "em"} -> <<"[I]">> \o inner \o <<"[/I]">>
         [] tag = "u" -> <<"[U]">> \o inner \o <<"[/U]">>
         [] tag \in {"s", "strike", "del"} -> <<"[S]">> \o inner \o <<"[/S]">>
         [] tag = "a" -> IF el.val # "" THEN <<"[URL=", el.val, "]">> \o inner \o <<"[/URL]">>
                         ELSE inner
         [] tag = "img" -> IF el.val = PngDataUri THEN <<"[IMG]", "<embedded>", "[/IMG]">>
                           ELSE <<"[IMG]", el.val, "[/IMG]">>
         [] tag = "blockquote" -> <<"[QUOTE]">> \o inner \o <<"[/QUOTE]">>
         [] tag \in {"code", "pre"} -> <<"[CODE]">> \o inner \o <<"[/CODE]">>
         [] tag \in {"h1", "h2", "h3", "h4", "h5", "h6"} ->
                <<"[SIZE=", tag, "]", "[B]">> \o inner \o <<"[/B]", "[/SIZE]", NL>>
         [] tag = "br" -> <<NL>>
         [] tag = "p" -> Strip(inner) \o <<NL, NL>>
         [] tag \in {"ul", "ol"} -> <<"[LIST]", NL>> \o inner \o <<"[/LIST]", NL>>
         [] tag = "li" -> <<"[*]">> \o Strip(inner) \o <<NL>>
         [] tag \in {"div", "span", "section", "article"} -> inner
         [] tag \in {"script", "style", "head", "meta", "link", "noscript"} -> <<>>
         [] OTHER -> inner

\* re.sub(r'\n{3,}', '\n\n', text): kept is the number of newlines kept right
\* before the rest t
RECURSIVE CollapseNewlines(_, _)
CollapseNewlines(t, kept) ==
    IF t = <<>> THEN <<>>
    ELSE IF Head(t) = NL
      THEN IF kept >= 2 THEN CollapseNewlines(Tail(t), kept)
           ELSE <<NL>> \o CollapseNewlines(Tail(t), kept + 1)
    ELSE <<Head(t)>> \o CollapseNewlines(Tail(t), 0)

\* lines 1049-1052
CleanBbcodeStripsOnly(t) == Strip(t)
CleanBbcode(t) == Strip(CollapseNewlines(t, 0))

\* ---- the elements converted ----
Leaves ==
    {TextNode(<<NL, NL, NL>>), TextNode(<<" ", "y", NL>>),
     Element("br", "", <<>>), Element("img", PngDataUri, <<>>)}

\* the kinds of the elements below the root: handled ones, a non-content one
\* and one the converter does not know
MidKinds == {"b", "p", "script", "font"}

Mid == Leaves \cup {Element(m, "", <<leaf>>) : m \in MidKinds, leaf \in Leaves}

RootKinds == {"div", "table", "noscript", "li"}

BbElements ==
    {Element(r, "", children) :
        r \in RootKinds, children \in UNION {[1..n -> Mid] : n \in 1..MaxChildren}}

BbFresh ==
    /\ bbpc = "convert"
    /\ bb_raw = <<>>
    /\ bb_body = <<>>

BbInit == bb_element \in BbElements /\ BbFresh

\* line 1254, inner call: _html_to_bbcode(message_div)
BbConvert ==
    /\ bbpc = "convert"
    /\ bb_raw' = <<HtmlToBbcode(bb_element)>>
    /\ bbpc' = "clean"
    /\ UNCHANGED <<bb_element, bb_body>>
    /\ UNCHANGED nonBbVars

\* line 1254, outer call: _clean_bbcode
BbClean ==
    /\ bbpc = "clean"
    /\ bb_body' = <<CleanBbcode(bb_raw[1])>>
    /\ bbpc' = "done"
    /\ UNCHANGED <<bb_element, bb_raw>>
    /\ UNCHANGED nonBbVars

NextBbcode == BbConvert \/ BbClean

\* the element and the elements and text nodes below it
Nodes(el) ==
    {el} \cup Range(el.children) \cup UNION {Range(c.children) : c \in Range(el.children)}

\* the kinds the converter has a rule for, and those it drops
HandledKinds ==
    {"b", "strong", "i", "em", "u", "s", "strike", "del", "a", "img", "blockquote", "code",
     "pre", "h1", "h2", "h3", "h4", "h5", "h6", "br", "p", "ul", "ol", "li"}

NonContentKinds == {"script", "style", "head", "meta", "link", "noscript"}

\* what the children of a node contribute, one after the other
ChildrenConverted(n) == Concat([k \in DOMAIN n.children |-> HtmlToBbcode(n.children[k])])

\* t has three newlines in a row
NewlineRun(t) == \E i \in 1..(Len(t) - 2) : t[i] = NL /\ t[i + 1] = NL /\ t[i + 2] = NL

\* C33: in the conversion of an element, every node of unknown kind
\* contributes the concatenation of what its children contribute and nothing
\* of its own; a script, style, head, meta, link or noscript element
\* contributes nothing, whatever is below it; a text node contributes its
\* text unchanged; and the text _clean_bbcode returns has no run of three or
\* more newlines.
C33_MarkupConversion ==
    /\ \A n \in Nodes(bb_element) :
         /\ n.name = "#text" => HtmlToBbcode(n) = n.text
         /\ n.name \in NonContentKinds => HtmlToBbcode(n) = <<>>
         /\ n.name \notin HandledKinds \cup NonContentKinds \cup {"#text"}
              => HtmlToBbcode(n) = ChildrenConverted(n)
    /\ bb_raw # <<>> => bb_raw[1] = HtmlToBbcode(bb_element)
    /\ bb_body # <<>> => ~NewlineRun(bb_body[1])

\* a table (a kind without a rule) over a script element with a child and an
\* element whose text has three newlines in a row has been converted and
\* cleaned
C33_Witness ==
    /\ bbpc = "done"
    /\ bb_element.name = "table"
    /\ \E n \in Nodes(bb_element) : n.name = "#text" /\ NewlineRun(n.text)
    /\ \E n \in Nodes(bb_element) : n.name = "script" /\ n.children # <<>>
    /\ NewlineRun(bb_raw[1])
    /\ bb_body[1] # <<>>

(***************************************************************************)
(* Specifications.                                                          *)
(***************************************************************************)
MirrorIdle == MirrorInit /\ site = SiteCyclic

ExtractIdle == ExtractInit /\ folder = <<>> /\ embed_base64 = FALSE

FetchIdle == FetchInit /\ fkind = "page" /\ fbody = 0

BbIdle == bb_element = TextNode(<<"x">>) /\ BbFresh

BackupIdle ==
    /\ src = Forum(1)
    /\ listing = FullListing
    /\ metadataFile = Absent
    /\ files = <<>>
    /\ download_media = FALSE
    /\ unwritable = {}
    /\ BackupFresh

InitMirror == MirrorInit /\ MediaInit /\ DiscInit /\ BackupIdle /\ ExtractIdle /\ FetchIdle /\ BbIdle

SpecMirror == InitMirror /\ [][NextMirror]_vars

\* the threads of a mirror run are scheduled: run() and every worker thread
\* take their next step when they have one
MirrorFairness ==
    /\ WF_vars(MirrorRun)
    /\ \A w \in MWorkers : WF_vars(WorkerStep(w))

InitMirrorLive == InitMirror /\ site = SiteMalformed

SpecMirrorLive == InitMirrorLive /\ [][NextMirror]_vars /\ MirrorFairness

InitMedia == MediaInit /\ MirrorIdle /\ DiscInit /\ BackupIdle /\ ExtractIdle /\ FetchIdle /\ BbIdle

SpecMedia == InitMedia /\ [][NextMedia]_vars

InitDiscover == DiscInit /\ MirrorIdle /\ MediaInit /\ BackupIdle /\ ExtractIdle /\ FetchIdle /\ BbIdle

\* a forum that lists one unit, of every shape up to MaxPages pages
PageLists == UNION {[1..n -> Bodies] : n \in 1..MaxPages}

ThreadSources ==
    {Source("ok", pages, pager, down) :
        pages \in PageLists, pager \in {{}, {MaxPages}, {MaxPages + 1}},
        down \in {{}, {2}}}

ThreadInit ==
    /\ \E s \in ThreadSources :
         src = [u \in UnitIds |-> IF u = 1 THEN s ELSE SourceKinds[3]]
    /\ listing = <<UnitLink(1, "thread"), UnitLink(1, "thread (again)")>>
    /\ metadataFile = Absent
    /\ files = <<>>
    /\ download_media = FALSE
    /\ unwritable = {}
    /\ BackupFresh

\* a forum that lists one unit, and an output directory that holds page files
\* of it from an earlier run whose metadata was lost: the pages as served, one
\* of them possibly an empty file
ResumeSources ==
    {Source("ok", <<BodyA, BodyB, BodyA>>, {MaxPages}, {}),
     Source("flaky", <<BodyA, BodyB>>, {2}, {}),
     Source("ok", <<BodyB, BodyA>>, {MaxPages}, {2})}

EmptyBody == Content(0, "")

PriorFiles(s) ==
    {[k \in {<<1, p>> : p \in S} |-> IF k[2] = e THEN EmptyBody ELSE Served(s, k[2])] :
        S \in SUBSET (1..MaxPages), e \in 0..2}

ResumeInit ==
    /\ \E s \in ResumeSources :
         /\ src = [u \in UnitIds |-> IF u = 1 THEN s ELSE SourceKinds[3]]
         /\ files \in PriorFiles(s)
    /\ listing = <<UnitLink(1, "thread"), UnitLink(1, "thread (again)")>>
    /\ metadataFile = Absent
    /\ download_media \in BOOLEAN
    /\ unwritable = {}
    /\ BackupFresh

\* a forum of NumUnits units and an output directory that refuses some kinds
\* of file
DiskInit ==
    /\ src = Forum(1)
    /\ listing = FullListing
    /\ metadataFile = Absent
    /\ files = <<>>
    /\ download_media = FALSE
    /\ unwritable \in SUBSET {"page", "metadata"}
    /\ BackupFresh

InitDisk == DiskInit /\ MirrorIdle /\ MediaInit /\ DiscInit /\ ExtractIdle /\ FetchIdle /\ BbIdle

SpecDisk == InitDisk /\ [][NextBackup]_vars

InitBackup == BackupInit /\ MirrorIdle /\ MediaInit /\ DiscInit /\ ExtractIdle /\ FetchIdle /\ BbIdle

InitResume == ResumeInit /\ MirrorIdle /\ MediaInit /\ DiscInit /\ ExtractIdle /\ FetchIdle /\ BbIdle

SpecResume == InitResume /\ [][NextBackup]_vars

InitThread == ThreadInit /\ MirrorIdle /\ MediaInit /\ DiscInit /\ ExtractIdle /\ FetchIdle /\ BbIdle

SpecThread == InitThread /\ [][NextBackup]_vars

SpecBackup == InitBackup /\ [][NextBackup]_vars

SpecDiscover == InitDiscover /\ [][NextDiscover]_vars

InitExtract == ExtractInit /\ MirrorIdle /\ MediaInit /\ DiscInit /\ BackupIdle /\ FetchIdle /\ BbIdle

SpecExtract == InitExtract /\ [][NextExtract]_vars

InitFetch == FetchInit /\ MirrorIdle /\ MediaInit /\ DiscInit /\ BackupIdle /\ ExtractIdle /\ BbIdle

SpecFetch == InitFetch /\ [][NextFetch]_vars

InitBbcode ==
    BbInit /\ MirrorIdle /\ MediaInit /\ DiscInit /\ BackupIdle /\ ExtractIdle /\ FetchIdle

SpecBbcode == InitBbcode /\ [][NextBbcode]_vars

InitMirrorPaths ==
    /\ site = SiteIndexed
    /\ MirrorFresh
    /\ MediaInit /\ DiscInit /\ BackupIdle /\ ExtractIdle /\ FetchIdle /\ BbIdle

SpecMirrorPaths == InitMirrorPaths /\ [][NextMirror]_vars
====
